---- MODULE Spec2Model ----
(***************************************************************************)
(* Model of the retrieval-and-cache subsystem of mantine-ui-server:        *)
(*   - utils/cache.ts   : two-tier CacheStore (memoryCache + one JSON file *)
(*                        per key under CACHE_DIR)                         *)
(*   - utils/config.ts  : the process-wide configuration                   *)
(*   - documentation/fetcher.ts : getComponentDocumentation and the fetch, *)
(*                        searchComponents, listAllComponents, the props   *)
(*                        table extraction                                 *)
(* Strings that the code transforms character by character (cache keys,    *)
(* file names, component names) are sequences of one-character strings.    *)
(***************************************************************************)
EXTENDS Integers, Sequences, FiniteSets, TLC

\* ------------------------------------------------------------------------
\* Bounds of the model
\* ------------------------------------------------------------------------
\* the clock runs over 0..MaxTime (milliseconds, abstracted)
MaxTime == 2

\* ------------------------------------------------------------------------
\* Strings
\* ------------------------------------------------------------------------
Digits == {"0", "1", "2", "3", "4", "5", "6", "7", "8", "9"}

LowerCase == {"a", "b", "c", "d", "e", "f", "g", "h", "i", "j", "k", "l", "m",
              "n", "o", "p", "q", "r", "s", "t", "u", "v", "w", "x", "y", "z"}

UpperCase == {"A", "B", "C", "D", "E", "F", "G", "H", "I", "J", "K", "L", "M",
              "N", "O", "P", "Q", "R", "S", "T", "U", "V", "W", "X", "Y", "Z"}

\* the character class [a-z0-9] with the flag i of getCacheFilePath
AlphaNumeric == Digits \cup LowerCase \cup UpperCase

\* `${...}.json`
JsonSuffix == <<".", "j", "s", "o", "n">>

\* 'component_doc_'
KeyPrefix == <<"c", "o", "m", "p", "o", "n", "e", "n", "t", "_", "d", "o", "c", "_">>

\* defaultConfig.mantineVersion, and the fallback of `config.mantineVersion || '7.16.2'`
DefaultVersion == <<"7", ".", "1", "6", ".", "2">>

\* another documentation version (MANTINE_VERSION / updateConfig)
OtherVersion == <<"6", ".", "0">>

Versions == {DefaultVersion, OtherVersion}

LowerSeq == <<"a", "b", "c", "d", "e", "f", "g", "h", "i", "j", "k", "l", "m",
              "n", "o", "p", "q", "r", "s", "t", "u", "v", "w", "x", "y", "z">>

UpperSeq == <<"A", "B", "C", "D", "E", "F", "G", "H", "I", "J", "K", "L", "M",
              "N", "O", "P", "Q", "R", "S", "T", "U", "V", "W", "X", "Y", "Z">>

\* String.prototype.toUpperCase / toLowerCase on one character
ToUpperChar(c) ==
    IF c \in LowerCase THEN UpperSeq[CHOOSE i \in 1..26 : LowerSeq[i] = c] ELSE c

ToLowerChar(c) ==
    IF c \in UpperCase THEN LowerSeq[CHOOSE i \in 1..26 : UpperSeq[i] = c] ELSE c

ToLowerCase(s) == [i \in 1..Len(s) |-> ToLowerChar(s[i])]

\* a normalisation that upper-cases the whole name
NormalizedName_upperCase(componentName) ==
    [i \in 1..Len(componentName) |-> ToUpperChar(componentName[i])]

\* componentName.charAt(0).toUpperCase() + componentName.slice(1)
NormalizedName(componentName) ==
    IF componentName = <<>> THEN <<>>
    ELSE <<ToUpperChar(Head(componentName))>> \o Tail(componentName)

\* MANTINE_DOCS_BASE_URL
MantineDocsBaseUrl ==
    <<"h", "t", "t", "p", "s", ":", "/", "/", "m", "a", "n", "t", "i", "n", "e",
      ".", "d", "e", "v">>

\* `${MANTINE_DOCS_BASE_URL}/core/${normalizedName.toLowerCase()}`
ComponentUrl(componentName) ==
    MantineDocsBaseUrl \o <<"/", "c", "o", "r", "e", "/">>
        \o ToLowerCase(NormalizedName(componentName))

\* ------------------------------------------------------------------------
\* JavaScript values
\* ------------------------------------------------------------------------
Null == [kind |-> "null"]

Undefined == [kind |-> "undefined"]

\* a property of type string that is missing from a parsed object
UndefinedString == <<"undefined">>

\* new Date(ms): a Date object
DateOf(ms) == [kind |-> "Date", ms |-> ms]

\* the ISO-8601 string JSON.stringify writes for a Date (millisecond precision)
IsoStringOf(ms) == [kind |-> "ISOString", ms |-> ms]

NaN == -1

\* new Date(x).getTime(): a Date and its ISO string give the instant,
\* undefined gives NaN
GetTime(x) == IF x.kind \in {"Date", "ISOString"} THEN x.ms ELSE NaN

\* the rendered content of a documentation page, as far as extraction keeps it
Bodies == {"page1", "page2"}

\* MantineComponentDoc: name, version, url stamped by the fetch; body stands
\* for description/props/examples/importStatement/packageName/relatedComponents
MakeDoc(name, version, url, body, lastFetchedAt) ==
    [kind |-> "doc", name |-> name, version |-> version, url |-> url,
     body |-> body, lastFetchedAt |-> lastFetchedAt]

\* JSON.parse(JSON.stringify(v)) of a cached value: a Date property comes back
\* as its ISO string; null/undefined data is not a document
JsonRoundTrip(v) ==
    IF v.kind = "doc"
    THEN [v EXCEPT !.lastFetchedAt =
             IF v.lastFetchedAt.kind = "Date" THEN IsoStringOf(v.lastFetchedAt.ms)
             ELSE v.lastFetchedAt]
    ELSE v

\* ------------------------------------------------------------------------
\* CacheStore: entries, files
\* ------------------------------------------------------------------------
NoEntry == [kind |-> "none"]

\* CacheEntry<T> { data, timestamp, version }
CacheEntry(data, timestamp, version) ==
    [kind |-> "entry", data |-> data, timestamp |-> timestamp, version |-> version]

NoFile == [kind |-> "nofile"]

\* text that JSON.parse rejects (a truncated or foreign file)
Unparseable == [kind |-> "text"]

\* the text `null`
JsonNullFile == [kind |-> "jsonnull"]

\* JSON.stringify(entry): the object with its Date timestamp as ISO string
JsonStringify(entry) ==
    [kind |-> "json",
     obj |-> CacheEntry(JsonRoundTrip(entry.data),
                        IsoStringOf(entry.timestamp.ms), entry.version)]

\* key.replace(/[^a-z0-9]/gi, '_')
RECURSIVE Sanitize(_)
Sanitize(s) ==
    IF s = <<>> THEN <<>>
    ELSE <<IF Head(s) \in AlphaNumeric THEN Head(s) ELSE "_">> \o Sanitize(Tail(s))

\* the file name under CACHE_DIR
getCacheFilePath(key) == Sanitize(key) \o JsonSuffix

\* `component_doc_${componentName}_${config.mantineVersion}`
CacheKeyOf(componentName, mantineVersion) ==
    KeyPrefix \o componentName \o <<"_">> \o mantineVersion

\* keys of direct CacheStore calls
ApiKeys == {<<"k", "-", "2">>}

\* CacheConfig { ttl, storage }
StorageModes == {"memory", "file"}

\* time-to-live values used by callers (0 disables caching)
TtlValues == {0, 2}

CacheConfigs == [ttl : TtlValues, storage : StorageModes]

\* ------------------------------------------------------------------------
\* utils/cache.ts
\* ------------------------------------------------------------------------
\* isValidCacheEntry with the expiry comparison reversed
isValidCacheEntry_reversed(entry, ttl, currentVersion, t) ==
    IF ttl = 0 THEN FALSE
    ELSE IF entry.version # currentVersion THEN FALSE
    ELSE LET entryTimestamp == GetTime(entry.timestamp)
         IN  entryTimestamp # NaN /\ (t - entryTimestamp) > ttl

\* isValidCacheEntry reading ttl = 0 as "never expires"
isValidCacheEntry_zeroNeverExpires(entry, ttl, currentVersion, t) ==
    IF ttl = 0 THEN entry.version = currentVersion
    ELSE IF entry.version # currentVersion THEN FALSE
    ELSE LET entryTimestamp == GetTime(entry.timestamp)
         IN  entryTimestamp # NaN /\ (t - entryTimestamp) < ttl

\* isValidCacheEntry without the version check
isValidCacheEntry_noVersionCheck(entry, ttl, currentVersion, t) ==
    IF ttl = 0 THEN FALSE
    ELSE LET entryTimestamp == GetTime(entry.timestamp)
         IN  entryTimestamp # NaN /\ (t - entryTimestamp) < ttl

\* isValidCacheEntry with an entry still valid at age = ttl
isValidCacheEntry_inclusive(entry, ttl, currentVersion, t) ==
    IF ttl = 0 THEN FALSE
    ELSE IF entry.version # currentVersion THEN FALSE
    ELSE LET entryTimestamp == GetTime(entry.timestamp)
         IN  entryTimestamp # NaN /\ (t - entryTimestamp) <= ttl

\* isValidCacheEntry at time t (Date.now())
isValidCacheEntry(entry, ttl, currentVersion, t) ==
    IF ttl = 0 THEN FALSE
    ELSE IF entry.version # currentVersion THEN FALSE
    ELSE LET entryTimestamp == GetTime(entry.timestamp)
         IN  entryTimestamp # NaN /\ (t - entryTimestamp) < ttl

\* JSON.parse gave null: reading entry.version raises a TypeError (only
\* reached when ttl is not 0)
isValidCacheEntryThrows(file, ttl) == ttl # 0 /\ file = JsonNullFile

\* a lookup that found nothing: `return null`
Miss(mem) == [result |-> Null, memoryCache |-> mem, hit |-> NoEntry, tier |-> "none"]

\* getCache at time t; readFails: readFileSync raises although the file exists.
\* result is the returned value, memoryCache the map after the call, hit the
\* entry that was served and tier where it was found.
getCache(mem, fs, key, config, currentVersion, t, readFails) ==
    LET memoryEntry == mem[key]
        file == fs[getCacheFilePath(key)]
    IN  IF memoryEntry # NoEntry
           /\ isValidCacheEntry(memoryEntry, config.ttl, currentVersion, t)
        THEN [result |-> memoryEntry.data, memoryCache |-> mem,
              hit |-> memoryEntry, tier |-> "memory"]
        ELSE IF config.storage # "file" THEN Miss(mem)
        ELSE IF file = NoFile THEN Miss(mem)
        ELSE IF readFails \/ file = Unparseable THEN Miss(mem)
        ELSE IF isValidCacheEntryThrows(file, config.ttl) THEN Miss(mem)
        ELSE IF file # JsonNullFile
                /\ isValidCacheEntry(file.obj, config.ttl, currentVersion, t)
        THEN [result |-> file.obj.data,
              memoryCache |-> [mem EXCEPT ![key] = file.obj],
              hit |-> file.obj, tier |-> "file"]
        ELSE Miss(mem)

\* how the file tier can fail inside setCache: mkdirSync raises (directory
\* missing), opening the file raises (permission), or the write stops after
\* the file was truncated (disk full)
WriteFailures == {"mkdir", "open", "partial"}

\* setCache that keeps the entry a key already has (the first writer wins)
setCache_firstWriterWins(mem, fs, dirExists, key, value, config, version, t, failure) ==
    LET entry == IF mem[key] # NoEntry THEN mem[key]
                 ELSE CacheEntry(value, DateOf(t), version)
    IN  [memoryCache |-> [mem EXCEPT ![key] = entry],
         files |-> IF config.storage = "file" /\ fs[getCacheFilePath(key)] = NoFile
                   THEN [fs EXCEPT ![getCacheFilePath(key)] = JsonStringify(entry)]
                   ELSE fs,
         cacheDirExists |-> dirExists \/ config.storage = "file",
         threw |-> FALSE]

\* setCache that stores in memory only when no file is configured
setCache_fileInsteadOfMemory(mem, fs, dirExists, key, value, config, version, t, failure) ==
    LET entry == CacheEntry(value, DateOf(t), version)
        filePath == getCacheFilePath(key)
    IN  IF config.storage # "file"
        THEN [memoryCache |-> [mem EXCEPT ![key] = entry], files |-> fs,
              cacheDirExists |-> dirExists, threw |-> FALSE]
        ELSE IF failure = "mkdir" /\ ~dirExists
        THEN [memoryCache |-> mem, files |-> fs, cacheDirExists |-> FALSE,
              threw |-> TRUE]
        ELSE IF failure = "open"
        THEN [memoryCache |-> mem, files |-> fs, cacheDirExists |-> TRUE,
              threw |-> TRUE]
        ELSE IF failure = "partial"
        THEN [memoryCache |-> mem,
              files |-> [fs EXCEPT ![filePath] = Unparseable],
              cacheDirExists |-> TRUE, threw |-> TRUE]
        ELSE [memoryCache |-> mem,
              files |-> [fs EXCEPT ![filePath] = JsonStringify(entry)],
              cacheDirExists |-> TRUE, threw |-> FALSE]

\* setCache at time t; failure is "none" or one of WriteFailures.  threw: the
\* call raised to its caller (there is no try/catch around the file write).
setCache(mem, fs, dirExists, key, value, config, version, t, failure) ==
    LET entry == CacheEntry(value, DateOf(t), version)
        mem2 == [mem EXCEPT ![key] = entry]
        filePath == getCacheFilePath(key)
    IN  IF config.storage # "file"
        THEN [memoryCache |-> mem2, files |-> fs, cacheDirExists |-> dirExists,
              threw |-> FALSE]
        ELSE IF failure = "mkdir" /\ ~dirExists
        THEN [memoryCache |-> mem2, files |-> fs, cacheDirExists |-> FALSE,
              threw |-> TRUE]
        ELSE IF failure = "open"
        THEN [memoryCache |-> mem2, files |-> fs, cacheDirExists |-> TRUE,
              threw |-> TRUE]
        ELSE IF failure = "partial"
        THEN [memoryCache |-> mem2,
              files |-> [fs EXCEPT ![filePath] = Unparseable],
              cacheDirExists |-> TRUE, threw |-> TRUE]
        ELSE [memoryCache |-> mem2,
              files |-> [fs EXCEPT ![filePath] = JsonStringify(entry)],
              cacheDirExists |-> TRUE, threw |-> FALSE]

\* ways the file removal of clearCache can fail
ClearFailures == {"unlink"}

\* clearCache that removes the file and leaves the map as it is
clearCache_fileOnly(mem, fs, key, config, failure) ==
    [memoryCache |-> mem,
     files |-> IF config.storage = "file"
               THEN [fs EXCEPT ![getCacheFilePath(key)] = NoFile] ELSE fs]

\* clearCache: the key leaves the map; with file storage the key's file is
\* unlinked when it exists.  A failing unlink is caught and logged: the file
\* stays and the call returns normally.
clearCache(mem, fs, key, config, failure) ==
    LET mem2 == [mem EXCEPT ![key] = NoEntry]
        filePath == getCacheFilePath(key)
    IN  IF config.storage # "file" THEN [memoryCache |-> mem2, files |-> fs]
        ELSE IF fs[filePath] = NoFile THEN [memoryCache |-> mem2, files |-> fs]
        ELSE IF failure = "unlink" THEN [memoryCache |-> mem2, files |-> fs]
        ELSE [memoryCache |-> mem2, files |-> [fs EXCEPT ![filePath] = NoFile]]

\* ways the file removal of clearAllCache can fail: the directory cannot be
\* made, cannot be listed, or one unlink fails
ClearAllFailures == {"mkdir", "readdir", "unlink"}

\* clearAllCache that forgets the files
clearAllCache_memoryOnly(mem, fs, dirExists, config, failure, deleted) ==
    [memoryCache |-> [k \in DOMAIN mem |-> NoEntry], files |-> fs,
     cacheDirExists |-> dirExists]

\* clearAllCache: every key leaves the map; with file storage the directory is
\* made when missing, listed, and every file in it unlinked.  The first
\* failure is caught and logged and ends the removal: with a failing unlink
\* the files in deleted (listed before it) are gone and the others stay.
clearAllCache(mem, fs, dirExists, config, failure, deleted) ==
    LET mem2 == [k \in DOMAIN mem |-> NoEntry]
    IN  IF config.storage # "file"
        THEN [memoryCache |-> mem2, files |-> fs, cacheDirExists |-> dirExists]
        ELSE IF failure = "mkdir" /\ ~dirExists
        THEN [memoryCache |-> mem2, files |-> fs, cacheDirExists |-> FALSE]
        ELSE IF failure = "readdir"
        THEN [memoryCache |-> mem2, files |-> fs, cacheDirExists |-> TRUE]
        ELSE IF failure = "unlink"
        THEN [memoryCache |-> mem2,
              files |-> [f \in DOMAIN fs |-> IF f \in deleted THEN NoFile ELSE fs[f]],
              cacheDirExists |-> TRUE]
        ELSE [memoryCache |-> mem2, files |-> [f \in DOMAIN fs |-> NoFile],
              cacheDirExists |-> TRUE]

\* ------------------------------------------------------------------------
\* utils/config.ts
\* ------------------------------------------------------------------------
\* defaultConfig.caching.documentation.ttl (24 hours; one clock unit is 12 hours)
DefaultTtl == 2

\* defaultConfig, as far as the documentation service reads it
defaultConfig ==
    [mantineVersion |-> DefaultVersion,
     caching |-> [kind |-> "config", ttl |-> DefaultTtl, storage |-> "file"]]

\* config.caching?.documentation: a CacheConfig, or undefined
CachingSettings ==
    {Undefined} \cup {[kind |-> "config", ttl |-> t, storage |-> m] :
                         t \in TtlValues, m \in StorageModes}

\* `config.mantineVersion || '7.16.2'`
EffectiveVersion(cfg) ==
    IF cfg.mantineVersion = UndefinedString \/ cfg.mantineVersion = <<>>
    THEN DefaultVersion ELSE cfg.mantineVersion

\* the CacheConfig handed to getCache/setCache
CacheConfigOf(cfg) == [ttl |-> cfg.caching.ttl, storage |-> cfg.caching.storage]

\* ------------------------------------------------------------------------
\* State
\* ------------------------------------------------------------------------
VARIABLES
    now,            \* the clock: Date.now() / new Date()
    memoryCache,    \* cache.ts memoryCache: key -> entry
    files,          \* the files under CACHE_DIR: file name -> content
    cacheDirExists, \* fs.existsSync(CACHE_DIR)
    config,         \* config.ts: the global configuration instance
    calls,          \* the getComponentDocumentation calls: call -> position and outcome
    sessions,       \* number of browsers launched and not closed
    ev,             \* the last direct CacheStore call: arguments and outcome
    io              \* the last search, listing or extraction: input and output

vars == <<now, memoryCache, files, cacheDirExists, config, calls, sessions, ev, io>>

\* values handed to setCache by direct callers
ApiValues ==
    {MakeDoc(<<"B">>, DefaultVersion, ComponentUrl(<<"B">>), b, DateOf(0)) : b \in Bodies}

\* how a getCache relates to the call before it, when that call was a setCache
\* with the same key and config: "afterSet" (same version), "afterSetV"
\* (another version); when it was a clearCache with the same key and config:
\* "afterClear"; when it was a clearAllCache with the same config:
\* "afterClearAll"; with "Restart" appended when the process was restarted in
\* between; "other" otherwise
SeqOf(e, key, cacheConfig, version) ==
    IF e.op = "set" /\ e.key = key /\ e.config = cacheConfig
    THEN IF e.version = version
         THEN (IF e.restarted THEN "afterSetRestart" ELSE "afterSet")
         ELSE (IF e.restarted THEN "afterSetVRestart" ELSE "afterSetV")
    ELSE IF e.op = "clearAll" /\ e.config = cacheConfig
    THEN (IF e.restarted THEN "afterClearAllRestart" ELSE "afterClearAll")
    ELSE IF e.op = "clear" /\ e.key = key /\ e.config = cacheConfig
    THEN (IF e.restarted THEN "afterClearRestart" ELSE "afterClear")
    ELSE "other"

\* what a cache file holds, as getCache sees it
FileClass(file) ==
    IF file.kind # "json" THEN file.kind
    ELSE IF file.obj.data = Undefined /\ file.obj.timestamp = Undefined
            /\ file.obj.version = UndefinedString THEN "emptyobject"
    ELSE IF file.obj.data = Undefined THEN "nodata"
    ELSE IF file.obj.timestamp = Undefined THEN "notimestamp"
    ELSE IF file.obj.version = UndefinedString THEN "noversion"
    ELSE "entry"

NoEvent ==
    [op |-> "none", key |-> <<>>, config |-> [ttl |-> 0, storage |-> "memory"],
     version |-> <<>>, value |-> Null, result |-> Null, hit |-> NoEntry,
     tier |-> "none", file |-> "nofile", readFails |-> FALSE, promoted |-> FALSE,
     time |-> 0, threw |-> FALSE, restarted |-> FALSE, seq |-> "other",
     age |-> 0, setValue |-> Null, setThrew |-> FALSE, had |-> "none",
     failure |-> "none"]

\* no search, listing or extraction has been made
NoIo == [op |-> "none", input |-> Null, output |-> Null]

\* a call that has not been made
IdleCall ==
    [pc |-> "idle", componentName |-> <<>>, forceRefresh |-> FALSE,
     config |-> defaultConfig, readFails |-> FALSE, result |-> Null,
     how |-> "none", time |-> 0, follows |-> FALSE, overlap |-> FALSE,
     wait |-> "none"]

\* process start for the given keys and calls: empty map, no cache directory
\* yet, initConfig with no environment variable set
InitWith(keys, callIds) ==
    /\ now = 0
    /\ memoryCache = [k \in keys |-> NoEntry]
    /\ files = [f \in {getCacheFilePath(k) : k \in keys} |-> NoFile]
    /\ cacheDirExists = FALSE
    /\ config = defaultConfig
    /\ calls = [c \in callIds |-> IdleCall]
    /\ sessions = 0
    /\ ev = NoEvent
    /\ io = NoIo

\* time passes
Tick ==
    /\ now < MaxTime
    /\ now' = now + 1
    /\ UNCHANGED <<memoryCache, files, cacheDirExists, config, calls, sessions, ev, io>>

\* the process ends and a fresh one starts: the in-process map is empty and
\* the configuration is initialised again, calls in flight and their browsers
\* are gone; the files stay
Restart ==
    /\ memoryCache' = [k \in DOMAIN memoryCache |-> NoEntry]
    /\ config' = defaultConfig
    /\ calls' = [c \in DOMAIN calls |-> IdleCall]
    /\ sessions' = 0
    /\ ev' = IF ev.op \in {"set", "clear", "clearAll"}
             THEN [ev EXCEPT !.restarted = TRUE] ELSE NoEvent
    /\ UNCHANGED <<now, files, cacheDirExists, io>>

\* a direct call setCache(key, value, config, version)
SetCache(key, value, cacheConfig, version, failure) ==
    /\ failure # "none" => cacheConfig.storage = "file"
    /\ failure = "mkdir" => ~cacheDirExists
    /\ LET r == setCache(memoryCache, files, cacheDirExists, key, value,
                         cacheConfig, version, now, failure)
       IN  /\ memoryCache' = r.memoryCache
           /\ files' = r.files
           /\ cacheDirExists' = r.cacheDirExists
           /\ ev' = [NoEvent EXCEPT !.op = "set", !.key = key,
                        !.config = cacheConfig, !.version = version,
                        !.value = value, !.time = now, !.threw = r.threw]
    /\ UNCHANGED <<now, config, calls, sessions, io>>

\* a direct call getCache(key, config, currentVersion)
GetCache(key, cacheConfig, currentVersion, readFails) ==
    /\ readFails => (cacheConfig.storage = "file"
                     /\ files[getCacheFilePath(key)] # NoFile)
    /\ LET r == getCache(memoryCache, files, key, cacheConfig, currentVersion,
                         now, readFails)
           seq == SeqOf(ev, key, cacheConfig, currentVersion)
       IN  /\ memoryCache' = r.memoryCache
           /\ ev' = [NoEvent EXCEPT !.op = "get", !.key = key,
                        !.config = cacheConfig, !.version = currentVersion,
                        !.result = r.result, !.hit = r.hit, !.tier = r.tier,
                        !.file = FileClass(files[getCacheFilePath(key)]),
                        !.readFails = readFails,
                        !.promoted = (r.memoryCache # memoryCache),
                        !.time = now, !.seq = seq,
                        !.age = IF seq = "other" THEN 0 ELSE now - ev.time,
                        !.setValue = IF seq = "other" THEN Null ELSE ev.value,
                        !.setThrew = IF seq = "other" THEN FALSE ELSE ev.threw,
                        !.had = IF seq = "other" THEN "none" ELSE ev.had,
                        !.failure = IF seq = "other" THEN "none" ELSE ev.failure]
    /\ UNCHANGED <<now, files, cacheDirExists, config, calls, sessions, io>>

\* contents a cache file can have that no successful setCache wrote: text
\* that does not parse, the text null, objects lacking data, timestamp or
\* version
CorruptContents(t) ==
    {Unparseable, JsonNullFile}
    \cup {[kind |-> "json", obj |-> CacheEntry(Undefined, IsoStringOf(t), v)] :
             v \in Versions}
    \cup {[kind |-> "json",
           obj |-> CacheEntry(JsonRoundTrip(d), Undefined, DefaultVersion)] :
             d \in ApiValues}
    \cup {[kind |-> "json",
           obj |-> CacheEntry(JsonRoundTrip(d), IsoStringOf(t), UndefinedString)] :
             d \in ApiValues}
    \cup {[kind |-> "json", obj |-> CacheEntry(Undefined, Undefined, UndefinedString)]}

\* something outside the process damages or replaces a cache file
CorruptFile(f, content) ==
    /\ cacheDirExists
    /\ files[f] # content
    /\ files' = [files EXCEPT ![f] = content]
    /\ ev' = [NoEvent EXCEPT !.op = "corrupt", !.time = now]
    /\ UNCHANGED <<now, memoryCache, cacheDirExists, config, calls, sessions, io>>

InitCache == InitWith(ApiKeys, {})

NextCache ==
    \/ Tick
    \/ Restart
    \/ \E k \in ApiKeys, v \in ApiValues, c \in CacheConfigs, ver \in Versions,
          f \in WriteFailures \cup {"none"} : SetCache(k, v, c, ver, f)
    \/ \E k \in ApiKeys, c \in CacheConfigs, ver \in Versions, rf \in BOOLEAN :
          GetCache(k, c, ver, rf)
    \/ \E f \in DOMAIN files, content \in CorruptContents(now) : CorruptFile(f, content)

\* the CacheStore under direct calls
SpecCache == InitCache /\ [][NextCache]_vars

\* ------------------------------------------------------------------------
\* Several keys, two of which differ only in a character outside [A-Za-z0-9]
\* ------------------------------------------------------------------------
StoreKeys == {<<"k", "-", "2">>, <<"k", "_", "2">>, <<"k", "3">>}

\* the value stored under a key by the callers of this part: it names its key
ValueOf(key) == MakeDoc(key, DefaultVersion, ComponentUrl(key), "page1", DateOf(0))

\* the CacheConfigs of this part: caching on, either storage
StoreConfigs == [ttl : {DefaultTtl}, storage : StorageModes]

\* where the store holds something for the key
TiersOf(mem, fs, key) ==
    IF mem[key] # NoEntry
    THEN (IF fs[getCacheFilePath(key)] # NoFile THEN "both" ELSE "memory")
    ELSE (IF fs[getCacheFilePath(key)] # NoFile THEN "file" ELSE "none")

\* where the store holds something: "both" when every key has an entry in
\* the map and a file
TiersOfAll(mem, fs) ==
    IF \A k \in DOMAIN mem : TiersOf(mem, fs, k) = "both" THEN "both"
    ELSE IF \E k \in DOMAIN mem : TiersOf(mem, fs, k) # "none" THEN "some"
    ELSE "none"

\* a direct call clearCache(key, config)
ClearCache(key, cacheConfig, failure) ==
    /\ failure # "none" => (cacheConfig.storage = "file"
                            /\ files[getCacheFilePath(key)] # NoFile)
    /\ LET r == clearCache(memoryCache, files, key, cacheConfig, failure)
       IN  /\ memoryCache' = r.memoryCache
           /\ files' = r.files
    /\ ev' = [NoEvent EXCEPT !.op = "clear", !.key = key, !.config = cacheConfig,
                 !.time = now, !.failure = failure,
                 !.had = TiersOf(memoryCache, files, key)]
    /\ UNCHANGED <<now, cacheDirExists, config, calls, sessions, io>>

\* a direct call clearAllCache(config)
ClearAllCache(cacheConfig, failure, deleted) ==
    /\ failure # "none" => cacheConfig.storage = "file"
    /\ failure = "mkdir" => ~cacheDirExists
    /\ failure = "readdir" => cacheDirExists
    /\ failure = "unlink" => (\E f \in DOMAIN files : files[f] # NoFile /\ f \notin deleted)
    /\ deleted \subseteq {f \in DOMAIN files : files[f] # NoFile}
    /\ failure # "unlink" => deleted = {}
    /\ LET r == clearAllCache(memoryCache, files, cacheDirExists, cacheConfig,
                              failure, deleted)
       IN  /\ memoryCache' = r.memoryCache
           /\ files' = r.files
           /\ cacheDirExists' = r.cacheDirExists
    /\ ev' = [NoEvent EXCEPT !.op = "clearAll", !.config = cacheConfig,
                 !.time = now, !.failure = failure,
                 !.had = TiersOfAll(memoryCache, files)]
    /\ UNCHANGED <<now, config, calls, sessions, io>>

InitStore == InitWith(StoreKeys, {})

NextStore ==
    \/ Restart
    \/ \E k \in StoreKeys, c \in StoreConfigs :
          SetCache(k, ValueOf(k), c, DefaultVersion, "none")
    \/ \E k \in StoreKeys, c \in StoreConfigs : GetCache(k, c, DefaultVersion, FALSE)
    \/ \E k \in StoreKeys, c \in StoreConfigs, f \in ClearFailures \cup {"none"} :
          ClearCache(k, c, f)
    \/ \E c \in StoreConfigs, f \in ClearAllFailures \cup {"none"},
          d \in SUBSET DOMAIN files : ClearAllCache(c, f, d)

\* the CacheStore with several keys and the clearing operations
SpecStore == InitStore /\ [][NextStore]_vars

\* ------------------------------------------------------------------------
\* Every call with file storage, no failing file operation, and keys with
\* files of their own
\* ------------------------------------------------------------------------
InitCoherent == InitWith(StoreKeys \ {<<"k", "_", "2">>}, {})

NextCoherent ==
    \/ Tick
    \/ Restart
    \/ \E k \in DOMAIN memoryCache, t \in TtlValues, ver \in Versions :
          SetCache(k, ValueOf(k), [ttl |-> t, storage |-> "file"], ver, "none")
    \/ \E k \in DOMAIN memoryCache, t \in TtlValues, ver \in Versions :
          GetCache(k, [ttl |-> t, storage |-> "file"], ver, FALSE)
    \/ \E k \in DOMAIN memoryCache, t \in TtlValues :
          ClearCache(k, [ttl |-> t, storage |-> "file"], "none")
    \/ \E t \in TtlValues :
          ClearAllCache([ttl |-> t, storage |-> "file"], "none", {})

\* the CacheStore used with file storage only
SpecCoherent == InitCoherent /\ [][NextCoherent]_vars

\* ------------------------------------------------------------------------
\* documentation/fetcher.ts and the configuration updates
\* ------------------------------------------------------------------------
\* browsers that can be open at once in the model
MaxSessions == 1

\* the names requested in SpecDocs
DocNames == {<<"b", "u", "t", "t", "o", "n">>}

\* a template literal prints a missing property as the text undefined
TemplateText(s) ==
    IF s = UndefinedString THEN <<"u", "n", "d", "e", "f", "i", "n", "e", "d">> ELSE s

\* a cacheKey built from the canonical name instead of the name as given
CallKey_canonicalName(call) ==
    CacheKeyOf(NormalizedName(call.componentName), TemplateText(call.config.mantineVersion))

\* the cacheKey of a call: built from the name as given and the snapshot's version
CallKey(call) == CacheKeyOf(call.componentName, TemplateText(call.config.mantineVersion))

\* `if (cachedDoc)`: null and undefined are falsy, a document is truthy
Truthy(v) == v.kind = "doc"

\* the Error thrown by the catch block of fetchComponentDocFromWebsite:
\* `Failed to fetch documentation for ${componentName}: ${cause}`
FetchError(componentName, cause) ==
    [kind |-> "error", source |-> "fetch", componentName |-> componentName,
     cause |-> cause]

\* the error of the file system that setCache lets through
WriteError(failure) ==
    [kind |-> "error", source |-> "fs", componentName |-> <<>>, cause |-> failure]

\* the object returned by fetchComponentDocFromWebsite at time t, cfg being
\* the configuration at that moment (getConfig() is read again)
FetchedDoc(componentName, cfg, body, t) ==
    MakeDoc(NormalizedName(componentName), EffectiveVersion(cfg),
            ComponentUrl(componentName), body, DateOf(t))

\* the lookup condition with the forceRefresh flag inverted
ShouldLookup_inverted(forceRefresh, cfg) == forceRefresh /\ cfg.caching # Undefined

\* `!forceRefresh && config.caching?.documentation`
ShouldLookup(forceRefresh, cfg) == ~forceRefresh /\ cfg.caching # Undefined

\* `config.caching?.documentation` before setCache
ShouldCache(cfg) == cfg.caching # Undefined

\* a call that starts right after call `last` returned a fetched record which
\* it cached: same name, version unchanged, caching configured with ttl > 0
FollowsFetch(last, componentName, cfg, t) ==
    /\ last.pc = "returned" /\ last.how = "fetched" /\ last.time = t
    /\ last.componentName = componentName
    /\ ShouldCache(last.config)
    /\ last.config.mantineVersion = cfg.mantineVersion
    /\ cfg.caching # Undefined /\ cfg.caching.ttl > 0

\* another call for the same key is in flight (it has missed and has not
\* completed) when call c starts
InFlightWith(c, componentName, cfg) ==
    \E d \in DOMAIN calls \ {c} :
        /\ calls[d].pc \in {"launching", "rendering"}
        /\ CallKey(calls[d])
             = CallKey([IdleCall EXCEPT !.componentName = componentName, !.config = cfg])

\* getComponentDocumentation up to its first await: read the configuration,
\* build the key, consult the cache unless forceRefresh, return on a hit,
\* otherwise start fetchComponentDocFromWebsite (puppeteer.launch pending)
Begin(c, componentName, forceRefresh, readFails) ==
    /\ calls[c].pc \in {"idle", "returned", "failed"}
    /\ LET call == [IdleCall EXCEPT !.componentName = componentName,
                       !.forceRefresh = forceRefresh, !.config = config,
                       !.readFails = readFails,
                       !.follows = FollowsFetch(calls[c], componentName, config, now),
                       !.overlap = InFlightWith(c, componentName, config)]
           cacheKey == CallKey(call)
           lookup == ShouldLookup(forceRefresh, config)
       IN  /\ readFails => (/\ lookup
                            /\ config.caching.storage = "file"
                            /\ files[getCacheFilePath(cacheKey)] # NoFile)
           /\ IF lookup
              THEN LET r == getCache(memoryCache, files, cacheKey,
                                     CacheConfigOf(config),
                                     EffectiveVersion(config), now, readFails)
                   IN  /\ memoryCache' = r.memoryCache
                       /\ calls' = [calls EXCEPT ![c] =
                             IF Truthy(r.result)
                             THEN [call EXCEPT !.pc = "returned",
                                      !.result = r.result, !.how = "hit",
                                      !.time = now]
                             ELSE [call EXCEPT !.pc = "launching"]]
              ELSE /\ memoryCache' = memoryCache
                   /\ calls' = [calls EXCEPT ![c] = [call EXCEPT !.pc = "launching"]]
    /\ UNCHANGED <<now, files, cacheDirExists, config, sessions, ev, io>>

\* a catch block that answers with a placeholder record instead of failing
fetchFailure_placeholder(call, cause, t) ==
    [call EXCEPT !.pc = "returned",
                 !.result = MakeDoc(NormalizedName(call.componentName),
                                    EffectiveVersion(call.config),
                                    ComponentUrl(call.componentName), "page1",
                                    DateOf(t)),
                 !.time = t]

\* the catch block of fetchComponentDocFromWebsite: the call is rejected with
\* the fetch error; getComponentDocumentation does not handle it
fetchFailure(call, cause, t) ==
    [call EXCEPT !.pc = "failed", !.result = FetchError(call.componentName, cause),
                 !.time = t]

\* puppeteer.launch settles: a browser is open, or the launch is rejected and
\* the catch block turns it into the fetch error
Launch(c, ok) ==
    /\ calls[c].pc = "launching"
    /\ IF ok
       THEN /\ sessions < MaxSessions
            /\ sessions' = sessions + 1
            /\ calls' = [calls EXCEPT ![c].pc = "rendering"]
       ELSE /\ sessions' = sessions
            /\ calls' = [calls EXCEPT ![c] =
                  [fetchFailure(calls[c], "launch", now) EXCEPT !.how = "fetchFailed"]]
    /\ UNCHANGED <<now, memoryCache, files, cacheDirExists, config, ev, io>>

\* what page rendering can do: the readiness marker appears ("ready"), the
\* wait for it times out and is ignored ("timeout"), or newPage/goto/content
\* is rejected ("error")
RenderOutcomes == {"ready", "timeout", "error"}

\* the rest of the call after the browser is open: render, close the browser,
\* extract, and back in getComponentDocumentation cache the record (with the
\* configuration read at the start of the call) and return it
Render(c, outcome, body, failure) ==
    /\ calls[c].pc = "rendering"
    /\ LET call == calls[c]
           caching == ShouldCache(call.config)
           componentDoc == FetchedDoc(call.componentName, config, body, now)
       IN  IF outcome = "error"
           THEN /\ failure = "none"
                /\ calls' = [calls EXCEPT ![c] =
                      [fetchFailure(call, "navigation", now) EXCEPT !.how = "fetchFailed"]]
                /\ UNCHANGED <<memoryCache, files, cacheDirExists, sessions>>
           ELSE /\ sessions' = sessions - 1
                /\ IF caching
                   THEN LET r == setCache(memoryCache, files, cacheDirExists,
                                          CallKey(call), componentDoc,
                                          CacheConfigOf(call.config),
                                          EffectiveVersion(call.config), now, failure)
                        IN  /\ failure # "none" => call.config.caching.storage = "file"
                            /\ failure = "mkdir" => ~cacheDirExists
                            /\ memoryCache' = r.memoryCache
                            /\ files' = r.files
                            /\ cacheDirExists' = r.cacheDirExists
                            /\ calls' = [calls EXCEPT ![c] =
                                  IF r.threw
                                  THEN [call EXCEPT !.pc = "failed",
                                           !.result = WriteError(failure),
                                           !.how = "fetched", !.time = now,
                                           !.wait = outcome]
                                  ELSE [call EXCEPT !.pc = "returned",
                                           !.result = componentDoc,
                                           !.how = "fetched", !.time = now,
                                           !.wait = outcome]]
                   ELSE /\ failure = "none"
                        /\ calls' = [calls EXCEPT ![c] =
                                        [call EXCEPT !.pc = "returned",
                                            !.result = componentDoc,
                                            !.how = "fetched", !.time = now,
                                            !.wait = outcome]]
                        /\ UNCHANGED <<memoryCache, files, cacheDirExists>>
    /\ UNCHANGED <<now, config, ev, io>>

\* a property that an updates object does not carry
NotGiven == [kind |-> "notgiven"]

\* updateConfig: the properties given replace the current ones
\* (caching.documentation is the only property of caching)
updateConfig(cfg, updates) ==
    [mantineVersion |-> IF updates.hasVersion THEN updates.mantineVersion
                        ELSE cfg.mantineVersion,
     caching |-> IF updates.documentation = NotGiven THEN cfg.caching
                 ELSE updates.documentation]

ConfigUpdates ==
    [hasVersion : BOOLEAN, mantineVersion : Versions,
     documentation : CachingSettings \cup {NotGiven}]

\* the updates made in SpecDocs: the caching settings only
CachingUpdates == {u \in ConfigUpdates : ~u.hasVersion /\ u.mantineVersion = DefaultVersion}

\* a call of updateConfig
UpdateConfig(updates) ==
    /\ config' = updateConfig(config, updates)
    /\ config' # config
    /\ UNCHANGED <<now, memoryCache, files, cacheDirExists, calls, sessions, ev, io>>

InitDocs ==
    InitWith({CacheKeyOf(n, DefaultVersion) : n \in DocNames}, {"c1"})

NextDocs ==
    \/ Tick
    \/ Restart
    \/ \E c \in DOMAIN calls, n \in DocNames, force \in BOOLEAN, rf \in BOOLEAN :
          Begin(c, n, force, rf)
    \/ \E c \in DOMAIN calls, ok \in BOOLEAN : Launch(c, ok)
    \/ \E c \in DOMAIN calls, o \in RenderOutcomes, b \in Bodies,
          f \in WriteFailures \cup {"none"} : Render(c, o, b, f)
    \/ \E u \in CachingUpdates : UpdateConfig(u)

\* the documentation service: one caller, calls one after the other
SpecDocs == InitDocs /\ [][NextDocs]_vars

\* ------------------------------------------------------------------------
\* utils/config.ts: the configuration read from the environment at start-up
\* ------------------------------------------------------------------------
\* an environment variable that is not set
EnvUnset == UndefinedString

\* milliseconds in one unit of the clock (12 hours)
MsPerTick == 43200000

\* parseInt(s, 10) of a text of decimal digits; NaN for any other text
RECURSIVE ParseDigits(_)
ParseDigits(s) ==
    IF s = <<>> THEN 0
    ELSE ParseDigits(SubSeq(s, 1, Len(s) - 1)) * 10
           + (CHOOSE d \in 0..9 :
                 <<"0", "1", "2", "3", "4", "5", "6", "7", "8", "9">>[d + 1] = s[Len(s)])

ParseInt(s) ==
    IF s # <<>> /\ \A i \in DOMAIN s : s[i] \in Digits THEN ParseDigits(s) ELSE NaN

\* the environments of the model: MANTINE_VERSION not set; CACHE_DOCS not
\* set, "false" or "true"; CACHE_TTL not set, 0, 12 hours or 24 hours in
\* seconds; CACHE_STORAGE not set, "memory" or "file"
Environments ==
    [MANTINE_VERSION : {EnvUnset},
     CACHE_DOCS : {EnvUnset, <<"f", "a", "l", "s", "e">>, <<"t", "r", "u", "e">>},
     CACHE_TTL : {EnvUnset, <<"0">>, <<"4", "3", "2", "0", "0">>, <<"8", "6", "4", "0", "0">>},
     CACHE_STORAGE : {EnvUnset, <<"m", "e", "m", "o", "r", "y">>, <<"f", "i", "l", "e">>}]

\* `if (env.X)`: set and not empty
EnvGiven(value) == value # EnvUnset /\ value # <<>>

\* CACHE_STORAGE as the storage of a CacheConfig ('memory' | 'file'),
\* 'file' when it is not given
StorageOfEnv(value) ==
    IF ~EnvGiven(value) THEN "file"
    ELSE IF value = <<"m", "e", "m", "o", "r", "y">> THEN "memory"
    ELSE IF value = <<"f", "i", "l", "e">> THEN "file"
    ELSE "other"

\* loadConfigFromEnv that does not look at CACHE_DOCS
loadConfigFromEnv_ignoresCacheDocs(env) ==
    [hasVersion |-> EnvGiven(env.MANTINE_VERSION),
     mantineVersion |-> env.MANTINE_VERSION,
     documentation |->
        IF EnvGiven(env.CACHE_TTL)
        THEN [kind |-> "config",
              ttl |-> (ParseInt(env.CACHE_TTL) * 1000) \div MsPerTick,
              storage |-> StorageOfEnv(env.CACHE_STORAGE)]
        ELSE NotGiven]

\* loadConfigFromEnv: the overrides read from the environment (ttl in units
\* of the clock)
loadConfigFromEnv(env) ==
    [hasVersion |-> EnvGiven(env.MANTINE_VERSION),
     mantineVersion |-> env.MANTINE_VERSION,
     documentation |->
        IF env.CACHE_DOCS = <<"f", "a", "l", "s", "e">>
        THEN [kind |-> "config", ttl |-> 0, storage |-> "memory"]
        ELSE IF EnvGiven(env.CACHE_TTL)
        THEN [kind |-> "config",
              ttl |-> (ParseInt(env.CACHE_TTL) * 1000) \div MsPerTick,
              storage |-> StorageOfEnv(env.CACHE_STORAGE)]
        ELSE NotGiven]

\* initConfig: defaultConfig with the overrides given
\* (caching.documentation is the only property of caching)
initConfig(overrides) ==
    [mantineVersion |-> IF overrides.hasVersion THEN overrides.mantineVersion
                        ELSE defaultConfig.mantineVersion,
     caching |-> IF overrides.documentation = NotGiven THEN defaultConfig.caching
                 ELSE overrides.documentation]

\* the cache file an earlier run of the server can have left: none, or an
\* entry written at time 0
EarlierFiles ==
    {NoFile} \cup {JsonStringify(CacheEntry(FetchedDoc(n, defaultConfig, b, 0),
                                            DateOf(0), DefaultVersion)) :
                      n \in DocNames, b \in {"page1"}}

\* process start in the environment env, an earlier run having left file:
\* index.ts runs initConfig(loadConfigFromEnv()); io keeps the environment
\* and the file found at the start
InitEnv ==
    \E env \in Environments, file \in EarlierFiles :
        /\ now = 0
        /\ memoryCache = [k \in {CacheKeyOf(n, DefaultVersion) : n \in DocNames} |-> NoEntry]
        /\ files = [f \in {getCacheFilePath(CacheKeyOf(n, DefaultVersion)) : n \in DocNames}
                        |-> file]
        /\ cacheDirExists = (file # NoFile)
        /\ config = initConfig(loadConfigFromEnv(env))
        /\ calls = [c \in {"c1"} |-> IdleCall]
        /\ sessions = 0
        /\ ev = NoEvent
        /\ io = [op |-> "env", input |-> env, output |-> file]

\* the process ends and a fresh one starts in the same environment
RestartEnv ==
    /\ memoryCache' = [k \in DOMAIN memoryCache |-> NoEntry]
    /\ config' = initConfig(loadConfigFromEnv(io.input))
    /\ calls' = [c \in DOMAIN calls |-> IdleCall]
    /\ sessions' = 0
    /\ ev' = NoEvent
    /\ UNCHANGED <<now, files, cacheDirExists, io>>

NextEnv ==
    \/ Tick
    \/ RestartEnv
    \/ \E c \in DOMAIN calls, n \in DocNames, force \in BOOLEAN :
          Begin(c, n, force, FALSE)
    \/ \E c \in DOMAIN calls, ok \in BOOLEAN : Launch(c, ok)
    \/ \E c \in DOMAIN calls, o \in RenderOutcomes, b \in Bodies :
          Render(c, o, b, "none")

\* the documentation service started in every environment
SpecEnv == InitEnv /\ [][NextEnv]_vars

\* ------------------------------------------------------------------------
\* One caller that asks for a component by its name as in DocNames and by its
\* canonical name, while updateConfig changes mantineVersion
\* ------------------------------------------------------------------------
InitSpellings ==
    InitWith({CacheKeyOf(n, v) :
                 n \in DocNames \cup {NormalizedName(m) : m \in DocNames},
                 v \in Versions}, {"c1"})

NextSpellings ==
    \/ Tick
    \/ \E c \in DOMAIN calls,
          n \in DocNames \cup {NormalizedName(m) : m \in DocNames} :
          Begin(c, n, FALSE, FALSE)
    \/ \E c \in DOMAIN calls : Launch(c, TRUE)
    \/ \E c \in DOMAIN calls : Render(c, "ready", "page1", "none")
    \/ \E u \in {x \in ConfigUpdates : x.hasVersion /\ x.documentation = NotGiven} :
          UpdateConfig(u)

\* the documentation service with both spellings and version updates
SpecSpellings == InitSpellings /\ [][NextSpellings]_vars

\* two callers: their calls interleave at the awaits of the fetch
InitPair ==
    InitWith({CacheKeyOf(n, DefaultVersion) : n \in DocNames}, {"c1", "c2"})

NextPair ==
    \/ Tick
    \/ \E c \in DOMAIN calls, n \in DocNames : Begin(c, n, FALSE, FALSE)
    \/ \E c \in DOMAIN calls, ok \in BOOLEAN : Launch(c, ok)
    \/ \E c \in DOMAIN calls, o \in RenderOutcomes, b \in Bodies,
          f \in {"none", "partial"} : Render(c, o, b, f)

\* the documentation service with concurrent calls
SpecPair == InitPair /\ [][NextPair]_vars

\* ------------------------------------------------------------------------
\* documentation/fetcher.ts: searchComponents
\* ------------------------------------------------------------------------
\* longest list of results in a search response
MaxResults == 2

\* result.type and result.title of the records in a response
ResultTypes == {"component", "page", "hook"}

ResultTitles == {"Button", "Badge"}

\* an element of response.data.results: a record, or a JSON null
ResultItems ==
    {Null} \cup [kind : {"result"}, type : ResultTypes, title : ResultTitles]

\* the sequences over S of length at most n
SeqsUpTo(S, n) == UNION {[1..m -> S] : m \in 0..n}

\* what axios.get can settle with: a rejection (network error, status outside
\* 2xx), or a response whose data is falsy, an object without results, an
\* object whose results is not an array, or an object with a results array
SearchResponses ==
    {[kind |-> "error"], [kind |-> "response", data |-> Null],
     [kind |-> "response", data |-> [kind |-> "object", results |-> Undefined]],
     [kind |-> "response",
      data |-> [kind |-> "object", results |-> [kind |-> "string"]]]}
    \cup {[kind |-> "response",
           data |-> [kind |-> "object",
                     results |-> [kind |-> "array", items |-> items]]] :
             items \in SeqsUpTo(ResultItems, MaxResults)}

\* the outcome of an async function: resolved with a value, or rejected
Resolved(value) == [threw |-> FALSE, value |-> value]

\* results.filter(result => result.type === 'component').map(result => result.title)
RECURSIVE FilterMapTitles(_)
FilterMapTitles(items) ==
    IF items = <<>> THEN <<>>
    ELSE (IF Head(items).type = "component" THEN <<Head(items).title>> ELSE <<>>)
             \o FilterMapTitles(Tail(items))

\* searchComponents that maps every result to its title
searchComponents_noFilter(response) ==
    IF response.kind = "error" THEN Resolved(<<>>)
    ELSE IF response.data = Null THEN Resolved(<<>>)
    ELSE IF response.data.results.kind # "array" THEN Resolved(<<>>)
    ELSE IF \E i \in DOMAIN response.data.results.items :
                response.data.results.items[i] = Null
    THEN Resolved(<<>>)
    ELSE Resolved([i \in DOMAIN response.data.results.items |->
                      response.data.results.items[i].title])

\* searchComponents: a rejected request is caught; data that is falsy or has
\* no results array gives []; reading .type of a null element raises a
\* TypeError inside the try, which the same catch turns into []
searchComponents(response) ==
    IF response.kind = "error" THEN Resolved(<<>>)
    ELSE IF response.data = Null THEN Resolved(<<>>)
    ELSE IF response.data.results.kind # "array" THEN Resolved(<<>>)
    ELSE IF \E i \in DOMAIN response.data.results.items :
                response.data.results.items[i] = Null
    THEN Resolved(<<>>)
    ELSE Resolved(FilterMapTitles(response.data.results.items))

\* tools.ts searchMantineComponents: searchComponents inside a try/catch that
\* answers [] when it rejects
searchMantineComponents(response) ==
    LET r == searchComponents(response)
    IN  IF r.threw THEN Resolved(<<>>) ELSE r

\* process start with one input waiting for a search, a listing or an extraction
InitIo(inputs) ==
    /\ now = 0
    /\ memoryCache = <<>>
    /\ files = <<>>
    /\ cacheDirExists = FALSE
    /\ config = defaultConfig
    /\ calls = <<>>
    /\ sessions = 0
    /\ ev = NoEvent
    /\ io \in {[op |-> "none", input |-> i, output |-> Null] : i \in inputs}

\* a call of searchMantineComponents, the request settling with io.input
Search ==
    /\ io.op = "none"
    /\ io' = [io EXCEPT !.op = "search", !.output = searchMantineComponents(io.input)]
    /\ UNCHANGED <<now, memoryCache, files, cacheDirExists, config, calls, sessions, ev>>

InitSearch == InitIo(SearchResponses)

NextSearch == Search

\* the search tool over every response
SpecSearch == InitSearch /\ [][NextSearch]_vars

\* ------------------------------------------------------------------------
\* documentation/fetcher.ts: listAllComponents
\* ------------------------------------------------------------------------
\* most links a[href^="/core/"] on the rendered page
MaxLinks == 2

\* the list returned by the catch block
FallbackCatalog ==
    <<<<"A", "c", "c", "o", "r", "d", "i", "o", "n">>,
      <<"A", "c", "t", "i", "o", "n", "I", "c", "o", "n">>,
      <<"A", "f", "f", "i", "x">>,
      <<"A", "l", "e", "r", "t">>,
      <<"A", "n", "c", "h", "o", "r">>,
      <<"A", "p", "p", "S", "h", "e", "l", "l">>,
      <<"A", "s", "p", "e", "c", "t", "R", "a", "t", "i", "o">>,
      <<"A", "u", "t", "o", "c", "o", "m", "p", "l", "e", "t", "e">>,
      <<"A", "v", "a", "t", "a", "r">>,
      <<"B", "a", "d", "g", "e">>,
      <<"B", "l", "o", "c", "k", "q", "u", "o", "t", "e">>,
      <<"B", "o", "x">>,
      <<"B", "r", "e", "a", "d", "c", "r", "u", "m", "b", "s">>,
      <<"B", "u", "r", "g", "e", "r">>,
      <<"B", "u", "t", "t", "o", "n">>,
      <<"C", "a", "r", "d">>,
      <<"C", "a", "r", "o", "u", "s", "e", "l">>,
      <<"C", "e", "n", "t", "e", "r">>,
      <<"C", "h", "e", "c", "k", "b", "o", "x">>,
      <<"C", "h", "i", "p">>,
      <<"C", "o", "d", "e">>,
      <<"C", "o", "l", "l", "a", "p", "s", "e">>,
      <<"C", "o", "l", "o", "r", "I", "n", "p", "u", "t">>,
      <<"C", "o", "l", "o", "r", "P", "i", "c", "k", "e", "r">>,
      <<"C", "o", "n", "t", "a", "i", "n", "e", "r">>,
      <<"D", "a", "t", "e", "I", "n", "p", "u", "t">>,
      <<"D", "a", "t", "e", "P", "i", "c", "k", "e", "r">>,
      <<"D", "a", "t", "e", "P", "i", "c", "k", "e", "r", "I", "n", "p", "u", "t">>,
      <<"D", "a", "t", "e", "T", "i", "m", "e", "P", "i", "c", "k", "e", "r">>,
      <<"D", "i", "v", "i", "d", "e", "r">>,
      <<"D", "r", "a", "w", "e", "r">>,
      <<"D", "r", "o", "p", "z", "o", "n", "e">>,
      <<"F", "i", "l", "e", "I", "n", "p", "u", "t">>,
      <<"F", "l", "e", "x">>,
      <<"F", "l", "o", "a", "t", "i", "n", "g", "A", "c", "t", "i", "o", "n", "B", "u", "t", "t", "o", "n">>,
      <<"F", "o", "c", "u", "s", "T", "r", "a", "p">>,
      <<"G", "r", "i", "d">>,
      <<"G", "r", "o", "u", "p">>,
      <<"H", "i", "g", "h", "l", "i", "g", "h", "t">>,
      <<"I", "m", "a", "g", "e">>,
      <<"I", "n", "d", "i", "c", "a", "t", "o", "r">>,
      <<"I", "n", "p", "u", "t">>,
      <<"I", "n", "d", "i", "c", "a", "t", "o", "r">>,
      <<"J", "s", "o", "n", "I", "n", "p", "u", "t">>,
      <<"K", "b", "d">>,
      <<"L", "i", "s", "t">>,
      <<"L", "o", "a", "d", "e", "r">>,
      <<"M", "a", "r", "k">>,
      <<"M", "e", "n", "u">>,
      <<"M", "o", "d", "a", "l">>,
      <<"M", "u", "l", "t", "i", "S", "e", "l", "e", "c", "t">>,
      <<"N", "a", "v", "b", "a", "r">>,
      <<"N", "a", "t", "i", "v", "e", "S", "e", "l", "e", "c", "t">>,
      <<"N", "o", "t", "i", "f", "i", "c", "a", "t", "i", "o", "n">>,
      <<"N", "u", "m", "b", "e", "r", "I", "n", "p", "u", "t">>,
      <<"O", "v", "e", "r", "l", "a", "y">>,
      <<"P", "a", "g", "i", "n", "a", "t", "i", "o", "n">>,
      <<"P", "a", "p", "e", "r">>,
      <<"P", "a", "s", "s", "w", "o", "r", "d", "I", "n", "p", "u", "t">>,
      <<"P", "i", "l", "l">>,
      <<"P", "i", "n", "I", "n", "p", "u", "t">>,
      <<"P", "o", "p", "o", "v", "e", "r">>,
      <<"P", "o", "r", "t", "a", "l">>,
      <<"P", "r", "o", "g", "r", "e", "s", "s">>,
      <<"R", "a", "d", "i", "o">>,
      <<"R", "a", "n", "g", "e", "C", "a", "l", "e", "n", "d", "a", "r">>,
      <<"R", "a", "n", "g", "e", "S", "l", "i", "d", "e", "r">>,
      <<"R", "a", "t", "i", "n", "g">>,
      <<"R", "i", "n", "g", "P", "r", "o", "g", "r", "e", "s", "s">>,
      <<"S", "c", "r", "o", "l", "l", "A", "r", "e", "a">>,
      <<"S", "e", "g", "m", "e", "n", "t", "e", "d", "C", "o", "n", "t", "r", "o", "l">>,
      <<"S", "e", "l", "e", "c", "t">>,
      <<"S", "i", "m", "p", "l", "e", "G", "r", "i", "d">>,
      <<"S", "k", "e", "l", "e", "t", "o", "n">>,
      <<"S", "l", "i", "d", "e", "r">>,
      <<"S", "p", "a", "c", "e">>,
      <<"S", "p", "o", "i", "l", "e", "r">>,
      <<"S", "t", "a", "c", "k">>,
      <<"S", "t", "e", "p", "p", "e", "r">>,
      <<"S", "w", "i", "t", "c", "h">>,
      <<"T", "a", "b", "l", "e">>,
      <<"T", "a", "b", "s">>,
      <<"T", "e", "x", "t">>,
      <<"T", "e", "x", "t", "a", "r", "e", "a">>,
      <<"T", "e", "x", "t", "I", "n", "p", "u", "t">>,
      <<"T", "h", "e", "m", "e", "I", "c", "o", "n">>,
      <<"T", "i", "m", "e", "l", "i", "n", "e">>,
      <<"T", "i", "t", "l", "e">>,
      <<"T", "o", "o", "l", "t", "i", "p">>,
      <<"U", "n", "s", "t", "y", "l", "e", "d", "B", "u", "t", "t", "o", "n">>>>

\* href attributes of links that match a[href^="/core/"]
CoreHrefs ==
    {<<"/", "c", "o", "r", "e", "/", "b", "u", "t", "t", "o", "n">>,
     <<"/", "c", "o", "r", "e", "/", "b", "a", "d", "g", "e">>,
     <<"/", "c", "o", "r", "e", "/">>}

\* href.split('/').pop(): what follows the last slash
RECURSIVE LastSegment(_)
LastSegment(href) ==
    IF href = <<>> THEN <<>>
    ELSE LET rest == LastSegment(Tail(href))
         IN  IF \E i \in DOMAIN Tail(href) : Tail(href)[i] = "/" THEN rest
             ELSE IF Head(href) = "/" THEN Tail(href)
             ELSE href

\* the callback of page.evaluate: every link gives the capitalised last
\* segment of its href, or null when that is empty; the nulls are filtered out
RECURSIVE NamesOfLinks(_)
NamesOfLinks(hrefs) ==
    IF hrefs = <<>> THEN <<>>
    ELSE (IF LastSegment(Head(hrefs)) = <<>> THEN <<>>
          ELSE <<NormalizedName(LastSegment(Head(hrefs)))>>)
             \o NamesOfLinks(Tail(hrefs))

\* how a listing can go: puppeteer.launch is rejected; newPage or goto is
\* rejected; page.evaluate is rejected; browser.close is rejected; or all
\* of them succeed
ListOutcomes == {"launchError", "navigationError", "evaluateError", "closeError", "ok"}

ListInputs == [outcome : ListOutcomes, hrefs : SeqsUpTo(CoreHrefs, MaxLinks)]

\* listAllComponents whose catch block returns no names
listAllComponents_emptyOnFailure(outcome, hrefs) ==
    IF outcome = "ok" THEN Resolved(NamesOfLinks(hrefs)) ELSE Resolved(<<>>)

\* listAllComponents: the names read from the page when every step succeeds,
\* the fallback list from the catch block otherwise
listAllComponents(outcome, hrefs) ==
    IF outcome = "ok" THEN Resolved(NamesOfLinks(hrefs))
    ELSE Resolved(FallbackCatalog)

\* tools.ts listMantineComponents: listAllComponents inside a try/catch that
\* answers [] when it rejects
listMantineComponents(outcome, hrefs) ==
    LET r == listAllComponents(outcome, hrefs)
    IN  IF r.threw THEN Resolved(<<>>) ELSE r

\* the browsers a listing leaves open: browser.close() is the last statement
\* of the try block, so every rejection after the launch skips it
LeakedByList(outcome) ==
    IF outcome \in {"navigationError", "evaluateError", "closeError"} THEN 1 ELSE 0

\* a call of listMantineComponents, the page behaving as io.input says
List ==
    /\ io.op = "none"
    /\ io.input.outcome # "launchError" => sessions < MaxSessions
    /\ io' = [io EXCEPT !.op = "list",
                 !.output = listMantineComponents(io.input.outcome, io.input.hrefs)]
    /\ sessions' = sessions + LeakedByList(io.input.outcome)
    /\ UNCHANGED <<now, memoryCache, files, cacheDirExists, config, calls, ev>>

InitList == InitIo(ListInputs)

NextList == List

\* the listing tool over every page
SpecList == InitList /\ [][NextList]_vars

\* ------------------------------------------------------------------------
\* documentation/fetcher.ts: extraction of the props table
\* ------------------------------------------------------------------------
\* most rows (.mantine-Table-root tbody tr) on the page
MaxRows == 2

WhiteSpace == {" "}

\* String.prototype.trim
RECURSIVE TrimStart(_)
TrimStart(s) ==
    IF s # <<>> /\ Head(s) \in WhiteSpace THEN TrimStart(Tail(s)) ELSE s

RECURSIVE TrimEnd(_)
TrimEnd(s) ==
    IF s # <<>> /\ s[Len(s)] \in WhiteSpace THEN TrimEnd(SubSeq(s, 1, Len(s) - 1))
    ELSE s

Trim(s) == TrimEnd(TrimStart(s))

\* String.prototype.includes for one character
Includes(s, ch) == \E i \in DOMAIN s : s[i] = ch

\* `text || undefined` for an optional string property
OrUndefined(text) ==
    IF text = <<>> THEN Undefined ELSE [kind |-> "string", text |-> text]

\* the rows on the page: each is the texts of its td cells, in order
\* (a header row has none)
TableRows ==
    {<<>>,
     <<<<"a">>, <<"t">>, <<"d">>>>,
     <<<<"a", " ", "*">>, <<" ", "t", " ">>, <<>>, <<"d">>>>,
     <<<<"a">>, <<"t">>, <<" ">>, <<" ", "d">>>>,
     <<<<" ", "b", " ">>, <<"t">>, <<"a">>, <<>>>>,
     <<<<"*">>, <<>>, <<"d", " ">>, <<"*">>>>,
     <<<<"b">>, <<"t">>, <<"d">>, <<"x">>, <<"a", "*">>>>,
     <<<<"b", "*">>, <<"*">>>>}

PropTables == SeqsUpTo(TableRows, MaxRows)

\* the MantineComponentProp pushed for a row
PropOf(columns) ==
    [name |-> Trim(columns[1]),
     type |-> Trim(columns[2]),
     defaultValue |-> OrUndefined(Trim(columns[3])),
     description |-> Trim(columns[4]),
     required |-> Includes(columns[1], "*")]

\* the props loop accepting rows of three columns
RECURSIVE extractProps_threeColumns(_)
extractProps_threeColumns(rows) ==
    IF rows = <<>> THEN <<>>
    ELSE (IF Len(Head(rows)) >= 3
          THEN <<PropOf(Head(rows) \o <<<<>>>>)>> ELSE <<>>)
             \o extractProps_threeColumns(Tail(rows))

\* the props loop: rows in document order, one push for a row with at least
\* four cells
RECURSIVE extractProps(_)
extractProps(rows) ==
    IF rows = <<>> THEN <<>>
    ELSE (IF Len(Head(rows)) >= 4 THEN <<PropOf(Head(rows))>> ELSE <<>>)
             \o extractProps(Tail(rows))

\* the props loop of fetchComponentDocFromWebsite runs over the rows of io.input
ExtractProps ==
    /\ io.op = "none"
    /\ io' = [io EXCEPT !.op = "props", !.output = extractProps(io.input)]
    /\ UNCHANGED <<now, memoryCache, files, cacheDirExists, config, calls, sessions, ev>>

InitProps == InitIo(PropTables)

NextProps == ExtractProps

\* the props extraction over every table
SpecProps == InitProps /\ [][NextProps]_vars

\* ------------------------------------------------------------------------
\* documentation/fetcher.ts: extraction of the code examples
\* ------------------------------------------------------------------------
\* most sibling elements on the page
MaxElements == 3

\* the elements of the page that the examples loop looks at: headings,
\* paragraphs and code blocks (.mantine-Code-root), siblings in document order
PageElements ==
    {[tag |-> "h2", text |-> <<"U", "s", "e">>],
     [tag |-> "h3", text |-> <<" ">>],
     [tag |-> "p", text |-> <<"d", " ">>],
     [tag |-> "code", text |-> <<"c">>]}

Pages == SeqsUpTo(PageElements, MaxElements)

\* the decimal digits of a number, as text
RECURSIVE DecimalOf(_)
DecimalOf(n) ==
    LET digit == <<"0", "1", "2", "3", "4", "5", "6", "7", "8", "9">>[(n % 10) + 1]
    IN  IF n < 10 THEN <<digit>> ELSE DecimalOf(n \div 10) \o <<digit>>

\* `Example ${i + 1}` for the block of 0-based index i
ExampleTitle(i) == <<"E", "x", "a", "m", "p", "l", "e", " ">> \o DecimalOf(i + 1)

\* codeBlock.prev(selector).text(): the text of the sibling right before the
\* element at position j when its tag is one of tags, the empty text otherwise
PrevText(elements, j, tags) ==
    IF j > 1 /\ elements[j - 1].tag \in tags THEN elements[j - 1].text ELSE <<>>

\* the number of code blocks before position j
CodeBlocksBefore(elements, j) ==
    Cardinality({k \in 1..(j - 1) : elements[k].tag = "code"})

\* the MantineComponentExample pushed for the code block at position j
ExampleOf(elements, j) ==
    LET heading == Trim(PrevText(elements, j, {"h2", "h3"}))
    IN  [title |-> IF heading # <<>> THEN heading
                   ELSE ExampleTitle(CodeBlocksBefore(elements, j)),
         code |-> Trim(elements[j].text),
         description |-> OrUndefined(Trim(PrevText(elements, j, {"p"})))]

\* the examples loop from position j on: code blocks in document order
RECURSIVE examplesFrom(_, _)
examplesFrom(elements, j) ==
    IF j > Len(elements) THEN <<>>
    ELSE (IF elements[j].tag = "code" THEN <<ExampleOf(elements, j)>> ELSE <<>>)
             \o examplesFrom(elements, j + 1)

\* the examples loop of fetchComponentDocFromWebsite runs over the page io.input
ExtractExamples ==
    /\ io.op = "none"
    /\ io' = [io EXCEPT !.op = "examples", !.output = examplesFrom(io.input, 1)]
    /\ UNCHANGED <<now, memoryCache, files, cacheDirExists, config, calls, sessions, ev>>

InitExamples == InitIo(Pages)

NextExamples == ExtractExamples

\* the examples extraction over every page
SpecExamples == InitExamples /\ [][NextExamples]_vars

\* ------------------------------------------------------------------------
\* documentation/fetcher.ts: extraction of the related components
\* ------------------------------------------------------------------------
\* most anchors (.mantine-Anchor-root) on the page
MaxAnchors == 2

\* the component whose page is extracted
RelatedPageNames == {<<"i", "n", "p", "u", "t">>}

\* href attributes of the anchors: the page itself, the page itself in
\* another letter case, siblings, the page itself with a trailing slash or a
\* fragment, a page outside /core/, and no href at all (the empty text)
AnchorHrefs ==
    {<<"/", "c", "o", "r", "e", "/", "i", "n", "p", "u", "t">>,
     <<"/", "c", "o", "r", "e", "/", "I", "n", "p", "u", "t">>,
     <<"/", "c", "o", "r", "e", "/", "n", "u", "m", "b", "e", "r", "-", "i", "n", "p", "u", "t">>,
     <<"/", "c", "o", "r", "e", "/", "b", "a", "d", "g", "e">>,
     <<"/", "c", "o", "r", "e", "/", "i", "n", "p", "u", "t", "/">>,
     <<"/", "c", "o", "r", "e", "/", "i", "n", "p", "u", "t", "#", "u", "s", "e">>,
     <<"/", "x", "/", "b", "a", "d", "g", "e">>,
     <<>>}

RelatedInputs ==
    [componentName : RelatedPageNames, hrefs : SeqsUpTo(AnchorHrefs, MaxAnchors)]

\* String.prototype.startsWith / endsWith
StartsWith(s, prefix) ==
    Len(prefix) <= Len(s) /\ SubSeq(s, 1, Len(prefix)) = prefix

EndsWith(s, suffix) ==
    Len(suffix) <= Len(s) /\ SubSeq(s, Len(s) - Len(suffix) + 1, Len(s)) = suffix

\* the pushes of the anchors loop, in document order
RECURSIVE relatedPushes(_, _)
relatedPushes(componentName, hrefs) ==
    IF hrefs = <<>> THEN <<>>
    ELSE LET href == Head(hrefs)
             relatedComponent == LastSegment(href)
         IN  (IF /\ href # <<>>
                 /\ StartsWith(href, <<"/", "c", "o", "r", "e", "/">>)
                 /\ ~EndsWith(href, ToLowerCase(NormalizedName(componentName)))
                 /\ relatedComponent # <<>>
              THEN <<NormalizedName(relatedComponent)>> ELSE <<>>)
                 \o relatedPushes(componentName, Tail(hrefs))

\* Array.from(new Set(names)): the first occurrence of every name, in order
RECURSIVE ArrayFromSet(_)
ArrayFromSet(names) ==
    IF names = <<>> THEN <<>>
    ELSE LET front == ArrayFromSet(SubSeq(names, 1, Len(names) - 1))
             last == names[Len(names)]
         IN  IF \E i \in DOMAIN front : front[i] = last THEN front
             ELSE front \o <<last>>

\* name and relatedComponents of the record returned for the page
relatedComponents(componentName, hrefs) ==
    [name |-> NormalizedName(componentName),
     relatedComponents |-> ArrayFromSet(relatedPushes(componentName, hrefs))]

\* the anchors loop of fetchComponentDocFromWebsite runs over io.input
ExtractRelated ==
    /\ io.op = "none"
    /\ io' = [io EXCEPT !.op = "related",
                 !.output = relatedComponents(io.input.componentName, io.input.hrefs)]
    /\ UNCHANGED <<now, memoryCache, files, cacheDirExists, config, calls, sessions, ev>>

InitRelated == InitIo(RelatedInputs)

NextRelated == ExtractRelated

\* the related-components extraction over every page
SpecRelated == InitRelated /\ [][NextRelated]_vars

\* ------------------------------------------------------------------------
\* documentation/fetcher.ts: name and url of the record
\* ------------------------------------------------------------------------
\* longest name made of NameLetters
MaxNameLen == 3

NameLetters == {"a", "A", "b", "B"}

\* the names requested: every short name over NameLetters (the empty name
\* included) and three spellings of button
RequestedNames ==
    SeqsUpTo(NameLetters, MaxNameLen)
    \cup {<<"b", "u", "t", "t", "o", "n">>,
          <<"B", "u", "t", "t", "o", "n">>,
          <<"B", "U", "T", "T", "O", "N">>}

\* name and url of the object returned by fetchComponentDocFromWebsite
nameAndUrl(componentName) ==
    [name |-> NormalizedName(componentName), url |-> ComponentUrl(componentName)]

\* fetchComponentDocFromWebsite names the record for io.input
NameRecord ==
    /\ io.op = "none"
    /\ io' = [io EXCEPT !.op = "name", !.output = nameAndUrl(io.input)]
    /\ UNCHANGED <<now, memoryCache, files, cacheDirExists, config, calls, sessions, ev>>

InitNames == InitIo(RequestedNames)

NextNames == NameRecord

\* the naming of the record over every requested name
SpecNames == InitNames /\ [][NextNames]_vars

\* ------------------------------------------------------------------------
\* Properties of the CacheStore (checked under SpecCache)
\* ------------------------------------------------------------------------
\* the last call was a getCache
IsGet == ev.op = "get"

\* C1: setCache(k, v, cfg, ver) immediately followed by getCache(k, cfg, ver)
\* with cfg.ttl > 0 returns v, in either storage mode (also when the file
\* write of the setCache failed or the file cannot be read).
C1_SetThenGetReturnsValue ==
    (IsGet /\ ev.seq = "afterSet" /\ ev.age = 0 /\ ev.config.ttl > 0)
        => ev.result = ev.setValue

C1_Witness ==
    /\ IsGet /\ ev.seq = "afterSet" /\ ev.age = 0 /\ ev.config.ttl > 0
    /\ ev.config.storage = "file"
    /\ ev.result = ev.setValue /\ ev.result.kind = "doc"

\* C2: with ttl = 0 every getCache reports absent: in both storage modes,
\* whatever entry memory or the cache file holds.
C2_TtlZeroAlwaysMisses ==
    (IsGet /\ ev.config.ttl = 0)
        => (ev.result = Null /\ ev.tier = "none" /\ ~ev.promoted)

C2_Witness ==
    /\ IsGet /\ ev.config.ttl = 0 /\ ev.result = Null
    /\ ev.seq = "afterSet" /\ ev.age = 0 /\ ~ev.setThrew
    /\ ev.config.storage = "file" /\ ev.file = "entry"
    /\ memoryCache[ev.key] # NoEntry

\* C3: an entry written with version v1 is never served to a getCache whose
\* currentVersion differs: every entry served carries currentVersion, and a
\* getCache that follows a successful setCache of another version (same key
\* and config) reports absent whatever time has passed, from memory and,
\* after a restart, from the file.
C3_VersionMismatchMisses ==
    /\ (IsGet /\ ev.tier # "none") => ev.hit.version = ev.version
    /\ (IsGet /\ ev.seq \in {"afterSetV", "afterSetVRestart"} /\ ~ev.setThrew)
           => ev.result = Null

C3_Witness ==
    /\ IsGet /\ ev.seq = "afterSetVRestart" /\ ~ev.setThrew /\ ev.age = 0
    /\ ev.config.ttl > 0 /\ ev.config.storage = "file" /\ ev.file = "entry"
    /\ ~ev.readFails /\ ev.result = Null

\* C4: expiry boundary.  A getCache with ttl = T > 0 and the version of the
\* preceding setCache on the key finds the value while now - t < T and
\* reports absent once now - t >= T; from memory, and in the same way from
\* the file after a restart (which serves the persisted form of the value).
C4_ExpiryBoundary ==
    /\ (IsGet /\ ev.seq = "afterSet" /\ ev.config.ttl > 0)
           => IF ev.age < ev.config.ttl
              THEN ev.result = ev.setValue /\ ev.tier = "memory"
              ELSE ev.result = Null
    /\ (IsGet /\ ev.seq = "afterSetRestart" /\ ev.config.ttl > 0
             /\ ev.config.storage = "file" /\ ~ev.setThrew /\ ~ev.readFails)
           => IF ev.age < ev.config.ttl
              THEN ev.result = JsonRoundTrip(ev.setValue) /\ ev.tier = "file"
              ELSE ev.result = Null

C4_Witness ==
    /\ IsGet /\ ev.seq = "afterSetRestart" /\ ev.config.storage = "file"
    /\ ~ev.setThrew /\ ~ev.readFails
    /\ ev.config.ttl > 0 /\ ev.age = ev.config.ttl /\ ev.result = Null

\* the value is still served one clock unit before the boundary
C4_WitnessFresh ==
    /\ IsGet /\ ev.seq = "afterSetRestart" /\ ev.config.storage = "file"
    /\ ev.config.ttl > 0 /\ ev.age = ev.config.ttl - 1 /\ ev.tier = "file"

\* C5 (as claimed): after setCache(k, v, cfg, ver) with file storage, a
\* restart and a getCache(k, cfg, ver) while the entry is valid, the call
\* returns v and the entry is in the in-process map.
C5_RestartReturnsValue ==
    (IsGet /\ ev.seq = "afterSetRestart" /\ ev.config.storage = "file"
        /\ ~ev.setThrew /\ ~ev.readFails
        /\ ev.config.ttl > 0 /\ ev.age < ev.config.ttl)
        => (ev.result = ev.setValue /\ memoryCache[ev.key] # NoEntry)

\* the part of C5 the code keeps: the persisted form of v is returned and
\* promoted into the in-process map
C5_RestartReturnsPersistedForm ==
    (IsGet /\ ev.seq = "afterSetRestart" /\ ev.config.storage = "file"
        /\ ~ev.setThrew /\ ~ev.readFails
        /\ ev.config.ttl > 0 /\ ev.age < ev.config.ttl)
        => (/\ ev.result = JsonRoundTrip(ev.setValue)
            /\ ev.promoted
            /\ memoryCache[ev.key].data = ev.result)

\* C9 (as claimed): a failure to write the file tier is not raised by
\* setCache to its caller, and the memory entry of that call stays in place.
C9_SetCacheNeverRaises ==
    ev.op = "set"
        => (~ev.threw /\ memoryCache[ev.key].data = ev.value)

\* C10 (as claimed): for a missing, unreadable or corrupt cache file getCache
\* reports absent and leaves the in-process map unchanged.
C10_CorruptFileIsMiss ==
    (IsGet /\ ev.tier # "memory" /\ ev.config.storage = "file"
        /\ (ev.readFails \/ ev.file # "entry"))
        => (ev.result = Null /\ ~ev.promoted)

\* the part of C10 the code keeps: every such file except an object that
\* lacks only its data is a plain miss
C10_CorruptFileExceptNoData ==
    (IsGet /\ ev.tier # "memory" /\ ev.config.storage = "file"
        /\ (ev.readFails \/ ev.file \notin {"entry", "nodata"}))
        => (ev.result = Null /\ ~ev.promoted)

\* ------------------------------------------------------------------------
\* Properties of getComponentDocumentation (checked under SpecDocs)
\* ------------------------------------------------------------------------
\* the validity rule of the specification: ttl # 0, same version, age < ttl
ValidByRule(entry, ttl, currentVersion, t) ==
    /\ ttl # 0
    /\ entry.version = currentVersion
    /\ t - entry.timestamp.ms < ttl

\* this step starts a new call c
BeginStep(c) ==
    /\ calls[c].pc \in {"idle", "returned", "failed"}
    /\ calls'[c] # calls[c]
    /\ calls'[c].pc # "idle"

\* the key and the file of the call that the step starts
NewKey(c) == CallKey(calls'[c])

NewPath(c) == getCacheFilePath(NewKey(c))

\* the in-process map holds a valid entry for the new call's key
ValidInMemory(c) ==
    /\ config.caching # Undefined
    /\ memoryCache[NewKey(c)] # NoEntry
    /\ ValidByRule(memoryCache[NewKey(c)], config.caching.ttl,
                   EffectiveVersion(config), now)

\* a readable cache file holds a valid entry for the new call's key
ValidInFile(c) ==
    /\ config.caching # Undefined
    /\ config.caching.storage = "file"
    /\ files[NewPath(c)].kind = "json"
    /\ ~calls'[c].readFails
    /\ ValidByRule(files[NewPath(c)].obj, config.caching.ttl,
                   EffectiveVersion(config), now)

\* C6: a call with forceRefresh = false, caching configured and a valid entry
\* for its key in the CacheStore returns the cached record at once: no browser
\* is launched, no file is touched and no entry is written (a valid file entry
\* is promoted into memory unchanged).
C6_HitReturnsCachedWithoutFetch ==
    [][\A c \in DOMAIN calls :
         (BeginStep(c) /\ ~calls'[c].forceRefresh
             /\ (ValidInMemory(c) \/ ValidInFile(c)))
         => /\ calls'[c].pc = "returned"
            /\ calls'[c].how = "hit"
            /\ calls'[c].result = IF ValidInMemory(c)
                                  THEN memoryCache[NewKey(c)].data
                                  ELSE files[NewPath(c)].obj.data
            /\ memoryCache' = IF ValidInMemory(c) THEN memoryCache
                              ELSE [memoryCache EXCEPT ![NewKey(c)] =
                                       files[NewPath(c)].obj]
            /\ UNCHANGED <<files, cacheDirExists, sessions>>]_vars

C6_Witness ==
    \E c \in DOMAIN calls :
        /\ calls[c].pc = "returned" /\ calls[c].how = "hit"
        /\ ~calls[c].forceRefresh /\ ~calls[c].follows
        /\ calls[c].time = now
        /\ memoryCache[CallKey(calls[c])].data = calls[c].result
        /\ memoryCache[CallKey(calls[c])].timestamp.kind = "ISOString"
        /\ sessions = 0

\* C7: on a miss, or with forceRefresh = true whatever the cache holds, the
\* call starts a fetch; when the fetch succeeds and the call returns, the
\* record it returns is the entry of its key (in memory, and in the file with
\* file storage), and a call for the same name that starts immediately
\* afterwards with forceRefresh = false, ttl > 0 and the version unchanged is
\* a hit that returns that same record.
C7_MissFetchesWritesThenHits ==
    [][\A c \in DOMAIN calls :
         /\ (BeginStep(c)
               /\ (calls'[c].forceRefresh
                     \/ ~(ValidInMemory(c) \/ ValidInFile(c))))
            => (calls'[c].pc = "launching" /\ calls'[c].result = Null)
         /\ (calls[c].pc = "rendering" /\ calls'[c].pc = "returned"
               /\ calls[c].config.caching # Undefined)
            => LET entry == CacheEntry(calls'[c].result, DateOf(now),
                                       EffectiveVersion(calls[c].config))
               IN  /\ calls'[c].result.kind = "doc"
                   /\ memoryCache'[CallKey(calls[c])] = entry
                   /\ calls[c].config.caching.storage = "file"
                        => files'[getCacheFilePath(CallKey(calls[c]))]
                              = JsonStringify(entry)
         /\ (BeginStep(c) /\ ~calls'[c].forceRefresh
               /\ FollowsFetch(calls[c], calls'[c].componentName, config, now))
            => (/\ calls'[c].pc = "returned"
                /\ calls'[c].how = "hit"
                /\ calls'[c].result = calls[c].result)]_vars

C7_Witness ==
    \E c \in DOMAIN calls :
        /\ calls[c].follows /\ ~calls[c].forceRefresh
        /\ calls[c].pc = "returned" /\ calls[c].how = "hit"
        /\ calls[c].result.kind = "doc"
        /\ calls[c].result.lastFetchedAt = DateOf(now)
        /\ calls[c].config.caching.storage = "file"

\* C8: a fetch that fails ends the call in an error that names the component
\* and the cause, never in a record; the failing call changes neither tier
\* of the cache from its start to its failure, forced or not, whatever entry
\* the key has.
C8_FetchFailureNotCached ==
    [][\A c \in DOMAIN calls :
         /\ calls'[c].how = "fetchFailed"
            => /\ calls'[c].pc = "failed"
               /\ calls'[c].result.kind = "error"
               /\ calls'[c].result.componentName = calls'[c].componentName
               /\ calls'[c].result.cause \in {"launch", "navigation"}
         /\ (calls'[c] # calls[c]
               /\ (calls'[c].pc \in {"launching", "rendering"}
                     \/ calls'[c].how = "fetchFailed"))
            => UNCHANGED <<memoryCache, files, cacheDirExists>>]_vars

C8_Witness ==
    \E c \in DOMAIN calls :
        /\ calls[c].how = "fetchFailed" /\ calls[c].pc = "failed"
        /\ calls[c].forceRefresh
        /\ calls[c].config.caching # Undefined
        /\ calls[c].config.caching.ttl > 0
        /\ memoryCache[CallKey(calls[c])] # NoEntry
        /\ now - memoryCache[CallKey(calls[c])].timestamp.ms < calls[c].config.caching.ttl

\* C9 (as claimed, for the service): a call whose fetch succeeded returns the
\* fetched record.
C9_FetchedCallReturns ==
    \A c \in DOMAIN calls :
        calls[c].how = "fetched"
            => (calls[c].pc = "returned" /\ calls[c].result.kind = "doc")

\* ------------------------------------------------------------------------
\* Claims about several keys and the clearing operations (SpecStore)
\* ------------------------------------------------------------------------
\* C11: distinct keys do not collide in the file tier: a getCache never
\* answers a key with a value that was set under another key.
C11_NoForeignValue ==
    (IsGet /\ ev.result # Null) => ev.result.name = ev.key

C13_ClearKeepsOtherKeys ==
    [][(ev'.op = "clear" /\ ~ev'.restarted /\ ev' # ev)
        => \A k \in DOMAIN memoryCache \ {ev'.key} :
              /\ memoryCache'[k] = memoryCache[k]
              /\ files'[getCacheFilePath(k)] = files[getCacheFilePath(k)]]_vars

\* ------------------------------------------------------------------------
\* Claims about the rendering sessions (SpecDocs)
\* ------------------------------------------------------------------------
\* C14: a browser launched during a call is closed before the call completes:
\* when no call is in flight, no browser is open.
C14_SessionsReleased ==
    (\A c \in DOMAIN calls : calls[c].pc \in {"idle", "returned", "failed"})
        => sessions = 0

\* C16: a call whose wait for the readiness marker timed out does not fail:
\* once it is over it has returned a record.
C16_TimeoutCallReturns ==
    \A c \in DOMAIN calls :
        calls[c].wait = "timeout"
            => (calls[c].pc = "returned" /\ calls[c].result.kind = "doc")

\* C16, the fetch alone: after a timed-out wait the fetch still yields its
\* record and the browser is closed; with caching configured the record is
\* stored in the map like any other, and the call returns it unless the file
\* write of setCache raised.
C16_TimeoutFetchSucceeds ==
    [][\A c \in DOMAIN calls :
         (calls[c].pc = "rendering" /\ calls'[c].wait = "timeout")
         => /\ calls'[c].how = "fetched"
            /\ sessions' = sessions - 1
            /\ calls'[c].pc = "returned" => calls'[c].result.kind = "doc"
            /\ calls'[c].pc = "failed"
                 => (/\ calls'[c].result \in {WriteError(f) : f \in WriteFailures}
                     /\ calls[c].config.caching.storage = "file")
            /\ ShouldCache(calls[c].config)
                 => (/\ memoryCache'[CallKey(calls[c])].data.kind = "doc"
                     /\ memoryCache'[CallKey(calls[c])].timestamp = DateOf(now)
                     /\ calls'[c].pc = "returned"
                          => memoryCache'[CallKey(calls[c])].data = calls'[c].result)]_vars

\* ------------------------------------------------------------------------
\* Claims about concurrent calls (SpecPair)
\* ------------------------------------------------------------------------
\* call c has returned the record it fetched
ReturnedFetched(c) == calls[c].pc = "returned" /\ calls[c].how = "fetched"

\* the entry setCache makes of the record that call c returned
EntryOf(c) ==
    CacheEntry(calls[c].result, DateOf(calls[c].time), EffectiveVersion(calls[c].config))

\* calls c and d were in flight together (d started while c was on its way),
\* both fetched and returned, c first
FetchedTogether(c, d) ==
    /\ ReturnedFetched(c) /\ ReturnedFetched(d)
    /\ ~calls[c].overlap /\ calls[d].overlap
    /\ CallKey(calls[c]) = CallKey(calls[d])
    /\ calls[c].time < calls[d].time

\* C15: a call that starts while another call for the same key is in flight,
\* and finds no valid entry, misses and starts its own fetch without touching
\* the other call; when a call returns its fetched record after the call it
\* overlapped with has returned its own, the map and the file hold exactly
\* the whole entry of the call that returns now, and that entry is valid; so
\* after both have returned the store holds the entry of the later one.
C15_BothFetchLastWriterWins ==
    /\ [](\A c \in DOMAIN calls : \A d \in DOMAIN calls \ {c} :
            FetchedTogether(c, d)
            => /\ memoryCache[CallKey(calls[d])] = EntryOf(d)
               /\ files[getCacheFilePath(CallKey(calls[d]))] = JsonStringify(EntryOf(d)))
    /\ [][\A c \in DOMAIN calls : \A d \in DOMAIN calls \ {c} :
            /\ (BeginStep(c) /\ ~calls'[c].forceRefresh
                  /\ calls[d].pc \in {"launching", "rendering"}
                  /\ CallKey(calls[d]) = NewKey(c)
                  /\ ~(ValidInMemory(c) \/ ValidInFile(c)))
               => /\ calls'[c].pc = "launching"
                  /\ calls'[c].overlap
                  /\ calls'[d] = calls[d]
                  /\ UNCHANGED <<memoryCache, files>>
            /\ (calls[c].pc = "rendering" /\ calls'[c].pc = "returned"
                  /\ ReturnedFetched(d)
                  /\ (calls[c].overlap \/ calls[d].overlap)
                  /\ CallKey(calls[d]) = CallKey(calls[c]))
               => LET entry == CacheEntry(calls'[c].result, DateOf(now),
                                          EffectiveVersion(calls[c].config))
                      key == CallKey(calls[c])
                  IN  /\ calls'[c].result.kind = "doc"
                      /\ calls'[c].how = "fetched"
                      /\ memoryCache'[key] = entry
                      /\ files'[getCacheFilePath(key)] = JsonStringify(entry)
                      /\ ValidByRule(memoryCache'[key], calls[c].config.caching.ttl,
                                     EffectiveVersion(config), now)
                      /\ calls'[d] = calls[d]]_vars

\* two calls in flight together have both returned, with different pages at
\* different times, and the store holds the entry of the later one
C15_Witness ==
    \E c \in DOMAIN calls : \E d \in DOMAIN calls \ {c} :
        /\ FetchedTogether(c, d)
        /\ calls[c].result.body # calls[d].result.body
        /\ memoryCache[CallKey(calls[d])].data = calls[d].result
        /\ memoryCache[CallKey(calls[d])] # EntryOf(c)

\* ------------------------------------------------------------------------
\* Claims about the search (SpecSearch)
\* ------------------------------------------------------------------------
\* the response carries a list of results
HasResultList(response) ==
    /\ response.kind = "response"
    /\ response.data # Null
    /\ response.data.results.kind = "array"

\* the titles, in order, of the results whose kind is component
RECURSIVE TitlesOfComponents(_)
TitlesOfComponents(items) ==
    IF items = <<>> THEN <<>>
    ELSE (IF Head(items) # Null /\ Head(items).type = "component"
          THEN <<Head(items).title>> ELSE <<>>)
             \o TitlesOfComponents(Tail(items))

HasNullResult(response) ==
    \E i \in DOMAIN response.data.results.items : response.data.results.items[i] = Null

\* C17 as stated: the search never fails; without a list of results it
\* returns the empty sequence, otherwise the titles of exactly the results
\* whose kind is component, in response order.
C17_SearchTitlesOfComponents ==
    io.op = "search"
    => /\ ~io.output.threw
       /\ io.output.value = IF HasResultList(io.input)
                            THEN TitlesOfComponents(io.input.data.results.items)
                            ELSE <<>>

\* C17 amended: the search never fails; without a list of results, or with
\* a list that holds a null element, it returns the empty sequence; otherwise
\* the titles of exactly the results whose kind is component, in response
\* order.
C17_SearchTitlesUnlessNull ==
    io.op = "search"
    => /\ ~io.output.threw
       /\ io.output.value = IF HasResultList(io.input) /\ ~HasNullResult(io.input)
                            THEN TitlesOfComponents(io.input.data.results.items)
                            ELSE <<>>

\* a list of two records, a component after another kind, answered with the
\* one title
C17_Witness ==
    /\ io.op = "search"
    /\ HasResultList(io.input)
    /\ Len(io.input.data.results.items) = 2
    /\ ~HasNullResult(io.input)
    /\ io.input.data.results.items[1].type = "page"
    /\ io.input.data.results.items[2].type = "component"
    /\ io.output.value = <<io.input.data.results.items[2].title>>

\* ------------------------------------------------------------------------
\* Claims about the listing (SpecList)
\* ------------------------------------------------------------------------
\* C18: when launch, navigation or link enumeration fails, the listing
\* returns the fixed fallback catalog: no error, the same non-empty list on
\* every failure, whatever the page held.
C18_FailureGivesFallback ==
    (io.op = "list" /\ io.input.outcome # "ok")
    => /\ ~io.output.threw
       /\ io.output.value = FallbackCatalog
       /\ Len(io.output.value) > 0
       /\ \E i \in DOMAIN io.output.value :
             io.output.value[i] = <<"B", "u", "t", "t", "o", "n">>

\* a listing whose navigation failed has answered with the catalog
C18_Witness ==
    /\ io.op = "list"
    /\ io.input.outcome = "navigationError"
    /\ io.output.value = FallbackCatalog
    /\ io.output.value[1] = <<"A", "c", "c", "o", "r", "d", "i", "o", "n">>

\* C19: whatever the navigation does, the listing returns at least one name.
C19_ListNeverEmpty ==
    io.op = "list" => (~io.output.threw /\ io.output.value # <<>>)

\* ------------------------------------------------------------------------
\* Claims about the props extraction (SpecProps)
\* ------------------------------------------------------------------------
\* the rows up to row i that have four or more columns
WideRowsUpTo(rows, i) == {j \in 1..i : Len(rows[j]) >= 4}

\* C20: a row with fewer than four columns emits nothing; a row with four
\* or more emits exactly one entry, built from its first four columns
\* (name, type, default, description; the texts trimmed, an empty default
\* absent) with required true iff the name column contains the marker *;
\* the entries are in the order of their rows.
C20_PropsFromWideRowsInOrder ==
    io.op = "props"
    => LET rows == io.input
           props == io.output
       IN  /\ Len(props) = Cardinality(WideRowsUpTo(rows, Len(rows)))
           /\ \A i \in WideRowsUpTo(rows, Len(rows)) :
                 LET prop == props[Cardinality(WideRowsUpTo(rows, i))]
                 IN  /\ prop.name = Trim(rows[i][1])
                     /\ prop.type = Trim(rows[i][2])
                     /\ prop.defaultValue =
                          IF Trim(rows[i][3]) = <<>> THEN Undefined
                          ELSE [kind |-> "string", text |-> Trim(rows[i][3])]
                     /\ prop.description = Trim(rows[i][4])
                     /\ prop.required = (\E k \in DOMAIN rows[i][1] : rows[i][1][k] = "*")

\* a row of three columns before a row of four whose name carries the
\* marker: one entry, required, for the second row
C20_Witness ==
    /\ io.op = "props"
    /\ Len(io.input) = 2
    /\ Len(io.input[1]) = 3
    /\ Len(io.input[2]) = 4
    /\ Len(io.output) = 1
    /\ io.output[1].required
    /\ io.output[1].name = <<"a", " ", "*">>
    /\ io.output[1].defaultValue = Undefined

\* ------------------------------------------------------------------------
\* Claims about the examples extraction (SpecExamples)
\* ------------------------------------------------------------------------
\* the positions of the code blocks on the page
CodePositions(elements) == {j \in DOMAIN elements : elements[j].tag = "code"}

\* the positions of the headings with a text before position j
HeadingsBefore(elements, j) ==
    {k \in 1..(j - 1) : elements[k].tag \in {"h2", "h3"} /\ Trim(elements[k].text) # <<>>}

\* the greatest member of a non-empty set of numbers
Maximum(S) == CHOOSE m \in S : \A n \in S : n <= m

\* C21: there is one example per code block, in source order; its title is
\* the text of the nearest heading before the block, whatever stands between
\* them, and "Example N", N the position of the block among the code blocks,
\* when no heading precedes it.
C21_TitleIsNearestHeading ==
    io.op = "examples"
    => LET elements == io.input
       IN  /\ Len(io.output) = Cardinality(CodePositions(elements))
           /\ \A j \in CodePositions(elements) :
                 LET n == CodeBlocksBefore(elements, j) + 1
                     before == HeadingsBefore(elements, j)
                 IN  io.output[n].title =
                         IF before # {} THEN Trim(elements[Maximum(before)].text)
                         ELSE <<"E", "x", "a", "m", "p", "l", "e", " ">> \o DecimalOf(n)

\* C21, what the extraction does: the title is the text of the heading that
\* stands right before the block, and "Example N" in every other case.
C21_TitleIsAdjacentHeading ==
    io.op = "examples"
    => LET elements == io.input
       IN  /\ Len(io.output) = Cardinality(CodePositions(elements))
           /\ \A j \in CodePositions(elements) :
                 LET n == CodeBlocksBefore(elements, j) + 1
                 IN  io.output[n].title =
                         IF (j - 1) \in HeadingsBefore(elements, j)
                         THEN Trim(elements[j - 1].text)
                         ELSE <<"E", "x", "a", "m", "p", "l", "e", " ">> \o DecimalOf(n)

\* ------------------------------------------------------------------------
\* Claims about the related components (SpecRelated)
\* ------------------------------------------------------------------------
\* C22: relatedComponents holds no name twice and never the record's own
\* name, whatever the anchors on the page.
C22_RelatedNoDuplicateNoSelf ==
    io.op = "related"
    => LET related == io.output.relatedComponents
       IN  /\ \A i, j \in DOMAIN related : related[i] = related[j] => i = j
           /\ \A i \in DOMAIN related : related[i] # io.output.name

\* C22, the part that holds: relatedComponents holds no name twice.
C22_RelatedNoDuplicate ==
    io.op = "related"
    => \A i, j \in DOMAIN io.output.relatedComponents :
          io.output.relatedComponents[i] = io.output.relatedComponents[j] => i = j

\* the anchor targets a page under /core/ other than the page of the component
IsSiblingPage(href, componentName) ==
    /\ StartsWith(href, <<"/", "c", "o", "r", "e", "/">>)
    /\ LastSegment(href) # <<>>
    /\ ToLowerCase(LastSegment(href)) # ToLowerCase(componentName)

\* C23: every anchor to a sibling component page contributes the capitalised
\* last segment of its target, also when that segment ends with the name of
\* the current component.
C23_RelatedComplete ==
    io.op = "related"
    => \A i \in DOMAIN io.input.hrefs :
          IsSiblingPage(io.input.hrefs[i], io.input.componentName)
          => \E k \in DOMAIN io.output.relatedComponents :
                io.output.relatedComponents[k]
                    = NormalizedName(LastSegment(io.input.hrefs[i]))

\* ------------------------------------------------------------------------
\* Claims about the name of the record (SpecNames)
\* ------------------------------------------------------------------------
\* the address of the page of the lower-cased name
CorePageOf(name) ==
    MantineDocsBaseUrl \o <<"/", "c", "o", "r", "e", "/">> \o ToLowerCase(name)

\* C24 as stated: all letter-case variants of the requested name give the
\* same record name, naming the name again changes nothing, and the url is
\* the base address, /core/ and the lower-cased name.
C24_CaseVariantsSameName ==
    io.op = "name"
    => /\ \A v \in RequestedNames :
             ToLowerCase(v) = ToLowerCase(io.input)
             => nameAndUrl(v).name = io.output.name
       /\ nameAndUrl(io.output.name).name = io.output.name
       /\ io.output.url = CorePageOf(io.input)

\* C24 amended: the record's name is the requested name with its first
\* letter upper-cased and the rest as given, so the names that differ only
\* in the case of the first letter give the same name; naming the name again
\* changes nothing; the url is the base address, /core/ and the lower-cased
\* name, the same for all letter-case variants.
C24_FirstLetterCapitalised ==
    io.op = "name"
    => /\ Len(io.output.name) = Len(io.input)
       /\ \A i \in DOMAIN io.input :
             io.output.name[i] = IF i = 1 THEN ToUpperChar(io.input[1]) ELSE io.input[i]
       /\ \A v \in RequestedNames :
             (/\ Len(v) = Len(io.input) /\ v # <<>>
              /\ ToLowerChar(v[1]) = ToLowerChar(io.input[1])
              /\ Tail(v) = Tail(io.input))
             => nameAndUrl(v).name = io.output.name
       /\ nameAndUrl(io.output.name).name = io.output.name
       /\ io.output.url = CorePageOf(io.input)
       /\ \A v \in RequestedNames :
             ToLowerCase(v) = ToLowerCase(io.input) => nameAndUrl(v).url = io.output.url

\* the request for button has been named Button, at .../core/button
C24_Witness ==
    /\ io.op = "name"
    /\ io.input = <<"b", "u", "t", "t", "o", "n">>
    /\ io.output.name = <<"B", "u", "t", "t", "o", "n">>
    /\ io.output.url = MantineDocsBaseUrl \o <<"/", "c", "o", "r", "e", "/", "b", "u", "t", "t", "o", "n">>

\* ------------------------------------------------------------------------
\* Claims about the environment variables (SpecEnv)
\* ------------------------------------------------------------------------
\* the server was started with CACHE_DOCS="false"
CacheDocsFalse == io.op = "env" /\ io.input.CACHE_DOCS = <<"f", "a", "l", "s", "e">>

\* C25: started with CACHE_DOCS="false", every call starts a fetch whatever
\* the map and the files hold, no call is answered from the cache, and no
\* step writes, removes or creates anything in the file tier.
C25_CacheDocsFalseAlwaysFetches ==
    [][CacheDocsFalse
        => /\ UNCHANGED <<files, cacheDirExists>>
           /\ \A c \in DOMAIN calls :
                 /\ BeginStep(c) => (calls'[c].pc = "launching" /\ calls'[c].result = Null)
                 /\ calls'[c].how # "hit"
                 /\ calls'[c].pc = "returned" => calls'[c].how = "fetched"]_vars

\* started with CACHE_DOCS="false" where an earlier run left a fresh cache
\* file: a first call has fetched and stored its record in the map, and the
\* next call, at the same instant and without forceRefresh, is fetching again
C25_Witness ==
    /\ CacheDocsFalse
    /\ io.output # NoFile
    /\ now = 0
    /\ calls["c1"].pc = "launching" /\ ~calls["c1"].forceRefresh
    /\ files[getCacheFilePath(CallKey(calls["c1"]))] = io.output
    /\ memoryCache[CallKey(calls["c1"])] # NoEntry
    /\ memoryCache[CallKey(calls["c1"])].timestamp = DateOf(0)

\* C26: unless CACHE_DOCS="false", CACHE_STORAGE="memory" gives storage
\* 'memory' and no cache file is written or read, CACHE_STORAGE="file" gives
\* storage 'file', and CACHE_TTL seconds give a ttl of CACHE_TTL * 1000
\* milliseconds.
C26_CacheStorageSelectsStorage ==
    (io.op = "env" /\ io.input.CACHE_DOCS # <<"f", "a", "l", "s", "e">>)
    => /\ io.input.CACHE_STORAGE = <<"m", "e", "m", "o", "r", "y">>
            => (/\ config.caching.storage = "memory"
                /\ files = [f \in DOMAIN files |-> io.output]
                /\ \A c \in DOMAIN calls :
                      calls[c].how = "hit"
                      => calls[c].result.lastFetchedAt.kind = "Date")
       /\ io.input.CACHE_STORAGE = <<"f", "i", "l", "e">>
            => config.caching.storage = "file"
       /\ EnvGiven(io.input.CACHE_TTL)
            => config.caching.ttl * MsPerTick = ParseInt(io.input.CACHE_TTL) * 1000

\* ------------------------------------------------------------------------
\* Claims about what a read changes (SpecCache)
\* ------------------------------------------------------------------------
\* this step is a direct getCache call
GetStep == ev'.op = "get" /\ ev' # ev

\* the file of the key that the getCache call of this step reads
GetFile == files[getCacheFilePath(ev'.key)]

\* this step put the valid entry of the file into the map, as it is in the file
PromotionStep ==
    /\ ev'.config.storage = "file"
    /\ GetFile \notin {NoFile, Unparseable, JsonNullFile}
    /\ memoryCache' = [memoryCache EXCEPT ![ev'.key] = GetFile.obj]
    /\ isValidCacheEntry(GetFile.obj, ev'.config.ttl, ev'.version, now)
    /\ GetTime(memoryCache'[ev'.key].timestamp) = GetTime(GetFile.obj.timestamp)
    /\ memoryCache'[ev'.key].version = GetFile.obj.version

\* C27: a getCache call changes no cache file and removes no entry: an
\* entry that is in the map, expired and version-mismatched ones included,
\* is the same entry after the call; the only change is the promotion of a
\* valid file entry into the map, as a copy with the file's timestamp and
\* version; and an entry is served only before its timestamp + ttl.
C27_ReadsKeepEveryEntry ==
    [][GetStep
        => /\ UNCHANGED <<files, cacheDirExists>>
           /\ \A k \in DOMAIN memoryCache :
                 memoryCache[k] # NoEntry => memoryCache'[k] = memoryCache[k]
           /\ memoryCache' # memoryCache => PromotionStep
           /\ ev'.hit # NoEntry
                 => now - GetTime(ev'.hit.timestamp) < ev'.config.ttl]_vars

\* C27 as the code has it: a getCache call changes no cache file and leaves
\* no key of the map without an entry; the only change is the promotion of a
\* valid file entry into the map, as a copy with the file's timestamp and
\* version, which replaces the entry the map had under that key when that
\* entry is expired or version-mismatched; and an entry is served only before
\* its timestamp + ttl.
C27_ReadsOnlyPromote ==
    [][GetStep
        => /\ UNCHANGED <<files, cacheDirExists>>
           /\ \A k \in DOMAIN memoryCache :
                 memoryCache[k] # NoEntry => memoryCache'[k] # NoEntry
           /\ memoryCache' # memoryCache => PromotionStep
           /\ \A k \in DOMAIN memoryCache :
                 (memoryCache[k] # NoEntry /\ memoryCache'[k] # memoryCache[k])
                 => ~isValidCacheEntry(memoryCache[k], ev'.config.ttl, ev'.version, now)
           /\ ev'.hit # NoEntry
                 => now - GetTime(ev'.hit.timestamp) < ev'.config.ttl]_vars

\* ------------------------------------------------------------------------
\* Claims about the two tiers together (SpecCoherent)
\* ------------------------------------------------------------------------
\* the text of the key's file is the entry: JSON.stringify of it gives the
\* file's content (same data, same instant, same version)
FileHolds(key, entry) == files[getCacheFilePath(key)] = JsonStringify(entry)

\* C28: with file storage in every call, no failing file operation and no
\* two keys with the same file, every key that has an entry in the map has a
\* cache file that holds that entry, with the same data, timestamp and
\* version; so what a read serves from the map is in the file tier.
C28_MemoryEntryIsInFile ==
    /\ \A k \in DOMAIN memoryCache :
          memoryCache[k] # NoEntry
          => /\ FileHolds(k, memoryCache[k])
             /\ files[getCacheFilePath(k)].obj.version = memoryCache[k].version
             /\ GetTime(files[getCacheFilePath(k)].obj.timestamp)
                  = GetTime(memoryCache[k].timestamp)
             /\ files[getCacheFilePath(k)].obj.data = JsonRoundTrip(memoryCache[k].data)
    /\ (ev.op = "get" /\ ev.tier = "memory")
          => files[getCacheFilePath(ev.key)].obj.data = JsonRoundTrip(ev.result)

\* a read is served from the map, after another key was written and cleared,
\* while the file of the key read holds the entry served
C28_Witness ==
    /\ ev.op = "get" /\ ev.tier = "memory"
    /\ FileHolds(ev.key, memoryCache[ev.key])
    /\ \E k \in DOMAIN memoryCache \ {ev.key} :
          memoryCache[k] = NoEntry /\ files[getCacheFilePath(k)] = NoFile
    /\ now > GetTime(memoryCache[ev.key].timestamp)

\* ------------------------------------------------------------------------
\* Claims about the cache key and the version of a record (SpecSpellings)
\* ------------------------------------------------------------------------
\* the names asked for in SpecSpellings
Spellings == DocNames \cup {NormalizedName(m) : m \in DocNames}

\* C29: every entry that getComponentDocumentation writes holds a record
\* whose version is the entry's version tag and the version in the entry's
\* cache key, also when mantineVersion changes while the fetch is in flight.
C29_RecordVersionIsEntryVersion ==
    \A k \in DOMAIN memoryCache :
        memoryCache[k] # NoEntry
        => /\ memoryCache[k].data.version = memoryCache[k].version
           /\ \E n \in Spellings :
                 k = CacheKeyOf(n, TemplateText(memoryCache[k].data.version))

\* the other spelling of the name that call c asks for in this step has a
\* valid entry in the map for the call's version, holding the record of the
\* same component (same name, same url), and the call's own key has no
\* entry and no file
OtherSpellingCached(c) ==
    \E m \in Spellings \ {calls'[c].componentName} :
        LET other == memoryCache[CallKey([calls'[c] EXCEPT !.componentName = m])]
        IN  /\ NormalizedName(m) = NormalizedName(calls'[c].componentName)
            /\ ComponentUrl(m) = ComponentUrl(calls'[c].componentName)
            /\ other # NoEntry
            /\ isValidCacheEntry(other, config.caching.ttl, EffectiveVersion(config), now)
            /\ other.data.name = NormalizedName(calls'[c].componentName)
            /\ other.data.url = ComponentUrl(calls'[c].componentName)
            /\ memoryCache[NewKey(c)] = NoEntry
            /\ files[getCacheFilePath(NewKey(c))] = NoFile

\* C30: the cache key is built from the name as given: two names that differ
\* only in the case of the first letter have the same record name and url but
\* different keys, and a call under one spelling misses and starts its own
\* fetch although a valid record cached under the other spelling is there.
C30_OtherSpellingMisses ==
    /\ [](\A n \in Spellings, m \in Spellings, v \in Versions :
            /\ NormalizedName(n) = NormalizedName(m)
            /\ ComponentUrl(n) = ComponentUrl(m)
            /\ n # m => CallKey([IdleCall EXCEPT !.componentName = n,
                                                 !.config.mantineVersion = v])
                          # CallKey([IdleCall EXCEPT !.componentName = m,
                                                   !.config.mantineVersion = v]))
    /\ [][\A c \in DOMAIN calls :
            (BeginStep(c) /\ OtherSpellingCached(c))
            => /\ calls'[c].pc = "launching"
               /\ memoryCache' = memoryCache]_vars

\* the record was fetched and cached under "button"; the call for "Button",
\* at the same instant and with the same version, has missed and is fetching
C30_Witness ==
    /\ calls["c1"].pc = "launching"
    /\ calls["c1"].componentName = <<"B", "u", "t", "t", "o", "n">>
    /\ calls["c1"].config = config
    /\ LET other == memoryCache[CacheKeyOf(<<"b", "u", "t", "t", "o", "n">>,
                                           TemplateText(config.mantineVersion))]
       IN  /\ other # NoEntry
           /\ isValidCacheEntry(other, config.caching.ttl, EffectiveVersion(config), now)
           /\ other.data.name = NormalizedName(calls["c1"].componentName)
           /\ other.data.version = EffectiveVersion(config)
    /\ memoryCache[CallKey(calls["c1"])] = NoEntry

====
